---- MODULE Spec2Model ----
(***************************************************************************)
(* A model of the CDL -> JSON Schema converter                             *)
(* (standard_interfaces/cdl_to_json_schema.py) and of the attribute        *)
(* validator (standard_interfaces/validator.py).                           *)
(*                                                                         *)
(* Text is a sequence of one-character strings; the regular expressions    *)
(* of the parser are translated match by match.  A Python dict is a        *)
(* sequence of <<key, value>> pairs in insertion order.                    *)
(***************************************************************************)
EXTENDS Integers, Sequences, FiniteSets, TLC

(***************************************************************************)
(* Characters and words                                                    *)
(***************************************************************************)
Lower == {"a", "b", "c", "d", "e", "f", "g", "h", "i", "j", "k", "l", "m",
          "n", "o", "p", "q", "r", "s", "t", "u", "v", "w", "x", "y", "z"}
Upper == {"A", "B", "C", "D", "E", "F", "G", "H", "I", "J", "K", "L", "M",
          "N", "O", "P", "Q", "R", "S", "T", "U", "V", "W", "X", "Y", "Z"}
LowerSeq == <<"a", "b", "c", "d", "e", "f", "g", "h", "i", "j", "k", "l", "m",
             "n", "o", "p", "q", "r", "s", "t", "u", "v", "w", "x", "y", "z">>
UpperSeq == <<"A", "B", "C", "D", "E", "F", "G", "H", "I", "J", "K", "L", "M",
             "N", "O", "P", "Q", "R", "S", "T", "U", "V", "W", "X", "Y", "Z">>
Digit == {"0", "1", "2", "3", "4", "5", "6", "7", "8", "9"}
\* \w of the re module
WordChar == Lower \cup Upper \cup Digit \cup {"_"}
\* \s of the re module, and the characters str.strip() removes
Space == {" ", "\n", "\t"}
NL == "\n"

W_netcdf == <<"n", "e", "t", "c", "d", "f">>
W_dimensions == <<"d", "i", "m", "e", "n", "s", "i", "o", "n", "s">>
W_variables == <<"v", "a", "r", "i", "a", "b", "l", "e", "s">>
W_data == <<"d", "a", "t", "a">>
W_time == <<"t", "i", "m", "e">>
W_UNLIMITED == <<"U", "N", "L", "I", "M", "I", "T", "E", "D">>
W_coil == <<"c", "o", "i", "l">>
W_double == <<"d", "o", "u", "b", "l", "e">>
W_units == <<"u", "n", "i", "t", "s">>
W_s == <<"s">>
W_A == <<"A">>
W_coil_current == <<"c", "o", "i", "l", "_", "c", "u", "r", "r", "e", "n", "t">>
W_polygon_node == <<"p", "o", "l", "y", "g", "o", "n", "_", "n", "o", "d", "e">>
W_foo_element == <<"f", "o", "o", "_", "e", "l", "e", "m", "e", "n", "t">>
W_geometry_type == <<"g", "e", "o", "m", "e", "t", "r", "y", "_", "t", "y", "p", "e">>
W_polygon == <<"p", "o", "l", "y", "g", "o", "n">>
W_node_coordinates == <<"n", "o", "d", "e", "_", "c", "o", "o", "r", "d", "i", "n", "a", "t", "e", "s">>
W_node_count == <<"n", "o", "d", "e", "_", "c", "o", "u", "n", "t">>
W_long_name == <<"l", "o", "n", "g", "_", "n", "a", "m", "e">>
W_standard_name == <<"s", "t", "a", "n", "d", "a", "r", "d", "_", "n", "a", "m", "e">>
W_FillValue == <<"_", "F", "i", "l", "l", "V", "a", "l", "u", "e">>
W_valid_min == <<"v", "a", "l", "i", "d", "_", "m", "i", "n">>
W_valid_max == <<"v", "a", "l", "i", "d", "_", "m", "a", "x">>
W_title == <<"t", "i", "t", "l", "e">>
W_base == <<"b", "a", "s", "e">>
W_pf_p == <<"p", "f", "_">>
W_tf_p == <<"t", "f", "_">>
W_plasma_p == <<"p", "l", "a", "s", "m", "a", "_">>
W_vessel_p == <<"v", "e", "s", "s", "e", "l", "_">>
W_diag_p == <<"d", "i", "a", "g", "_">>
W_eq_p == <<"e", "q", "_">>
W_pf_active == <<"p", "f", "_", "a", "c", "t", "i", "v", "e">>
W_tf_active == <<"t", "f", "_", "a", "c", "t", "i", "v", "e">>
W_plasma == <<"p", "l", "a", "s", "m", "a">>
W_vessel == <<"v", "e", "s", "s", "e", "l">>
W_diagnostics == <<"d", "i", "a", "g", "n", "o", "s", "t", "i", "c", "s">>
W_equilibrium == <<"e", "q", "u", "i", "l", "i", "b", "r", "i", "u", "m">>
W_pf_coil_current == <<"p", "f", "_", "c", "o", "i", "l", "_", "c", "u", "r", "r", "e", "n", "t">>
W_eq_psi == <<"e", "q", "_", "p", "s", "i">>
W_geometry == <<"g", "e", "o", "m", "e", "t", "r", "y">>
W_node == <<"_", "n", "o", "d", "e">>
W_element == <<"_", "e", "l", "e", "m", "e", "n", "t">>
W_rz == <<"r", " ", "z">>
W_polygon_node_count == <<"p", "o", "l", "y", "g", "o", "n", "_", "n", "o", "d", "e", "_", "c", "o", "u", "n", "t">>
W_minimal_coil_current == <<"m", "i", "n", "i", "m", "a", "l", "_", "c", "o", "i", "l", "_", "c", "u", "r", "r", "e", "n", "t">>

(***************************************************************************)
(* str and re primitives                                                   *)
(***************************************************************************)
\* F applied to v: v under the name of F's parameter
With(v, F(_)) == F(v)

\* the first position >= i of s whose character is not in S (Len(s)+1 if none):
\* where a greedy S* that starts at i stops
SkipIn(s, i, S) ==
    IF i > Len(s) THEN i
    ELSE CHOOSE j \in i..(Len(s) + 1) :
             /\ j = Len(s) + 1 \/ s[j] \notin S
             /\ \A k \in i..(j - 1) : s[k] \in S

\* the first position >= i of s whose character is in S: where [^S]* stops
SkipNotIn(s, i, S) ==
    IF i > Len(s) THEN i
    ELSE CHOOSE j \in i..(Len(s) + 1) :
             /\ j = Len(s) + 1 \/ s[j] \in S
             /\ \A k \in i..(j - 1) : s[k] \notin S

\* the literal w occurs in s at position i
StartsWithAt(s, i, w) ==
    /\ i >= 1
    /\ i + Len(w) - 1 <= Len(s)
    /\ \A k \in 1..Len(w) : s[i + k - 1] = w[k]

\* str.startswith, str.endswith, the in operator on str
StartsWith(s, w) == StartsWithAt(s, 1, w)
EndsWith(s, w) == StartsWithAt(s, Len(s) - Len(w) + 1, w)
Contains(s, w) == \E i \in 1..(Len(s) + 1) : StartsWithAt(s, i, w)

\* the least member of a non-empty set of positions
Min(P) == CHOOSE p \in P : \A q \in P : p <= q

\* str.strip()
LastNonSpace(s, j) ==
    CHOOSE k \in 0..j :
        /\ k = 0 \/ s[k] \notin Space
        /\ \A m \in (k + 1)..j : s[m] \in Space
Strip(s) ==
    With(SkipIn(s, 1, Space), LAMBDA a :
    With(LastNonSpace(s, Len(s)), LAMBDA b :
         IF a > b THEN <<>> ELSE SubSeq(s, a, b)))

\* str.split(sep) for a one-character separator
RECURSIVE SplitFrom(_, _, _)
SplitFrom(s, i, sep) ==
    With(SkipNotIn(s, i, {sep}), LAMBDA j :
         IF j > Len(s) THEN <<SubSeq(s, i, Len(s))>>
         ELSE <<SubSeq(s, i, j - 1)>> \o SplitFrom(s, j + 1, sep))
Split(s, sep) == SplitFrom(s, 1, sep)

\* sep.join(ss), and the concatenation of a sequence of texts
RECURSIVE Join(_, _)
Join(ss, sep) ==
    IF ss = <<>> THEN <<>>
    ELSE IF Len(ss) = 1 THEN ss[1]
         ELSE ss[1] \o sep \o Join(Tail(ss), sep)
RECURSIVE Concat(_)
Concat(ss) == IF ss = <<>> THEN <<>> ELSE Head(ss) \o Concat(Tail(ss))

(***************************************************************************)
(* dict: a sequence of <<key, value>> pairs in insertion order             *)
(***************************************************************************)
DictKeys(d) == [i \in 1..Len(d) |-> d[i][1]]
DictKeySet(d) == {d[i][1] : i \in 1..Len(d)}
DictHas(d, k) == \E i \in 1..Len(d) : d[i][1] = k
DictGet(d, k) == d[CHOOSE i \in 1..Len(d) : d[i][1] = k][2]
\* d[k] = v: an existing key keeps its place, a new key goes last
DictSet(d, k, v) ==
    IF DictHas(d, k)
    THEN [i \in 1..Len(d) |-> IF d[i][1] = k THEN <<k, v>> ELSE d[i]]
    ELSE Append(d, <<k, v>>)
\* the members of a list, as a set
Range(q) == {q[i] : i \in 1..Len(q)}

(***************************************************************************)
(* CDLParser                                                               *)
(***************************************************************************)
\* re.sub(r"//.*$", "", content, flags=re.MULTILINE): from each line's first
\* "//" to the end of that line
StripLine(l) ==
    With({i \in 1..Len(l) : StartsWithAt(l, i, <<"/", "/">>)}, LAMBDA C :
         IF C = {} THEN l ELSE SubSeq(l, 1, Min(C) - 1))
StripComments(content) ==
    With(Split(content, NL), LAMBDA lines :
         Join([i \in 1..Len(lines) |-> StripLine(lines[i])], <<NL>>))

\* CDLParser.__init__
NewParser == [global_attributes |-> <<>>, dimensions |-> <<>>, variables |-> <<>>]

\* one try of r'^\s*:(\w+)\s*=\s*"([^"]*)"' at position p: the match's
\* <<name, value, end>>, or <<>>
GlobalAttrMatchAt(s, p) ==
    With(SkipIn(s, p, Space), LAMBDA a :
    With(SkipIn(s, a + 1, WordChar), LAMBDA b :
    With(SkipIn(s, b, Space), LAMBDA c :
    With(SkipIn(s, c + 1, Space), LAMBDA d :
    With(SkipNotIn(s, d + 1, {"\""}), LAMBDA e :
         IF /\ (p = 1 \/ s[p - 1] = NL)
            /\ a <= Len(s) /\ s[a] = ":"
            /\ b > a + 1
            /\ c <= Len(s) /\ s[c] = "="
            /\ d <= Len(s) /\ s[d] = "\""
            /\ e <= Len(s)
         THEN <<SubSeq(s, a + 1, b - 1), SubSeq(s, d + 1, e - 1), e + 1>>
         ELSE <<>>)))))

\* _parse_global_attributes: re.finditer takes the leftmost match at or after
\* p, then goes on from its end; M is the set of positions where a try matches
RECURSIVE GlobalAttrsFrom(_, _, _, _)
GlobalAttrsFrom(s, M, p, attrs) ==
    With({q \in M : q >= p}, LAMBDA R :
         IF R = {} THEN attrs
         ELSE With(GlobalAttrMatchAt(s, Min(R)), LAMBDA m :
                   GlobalAttrsFrom(s, M, m[3], DictSet(attrs, m[1], m[2]))))
ParseGlobalAttributes(self, content) ==
    [self EXCEPT !.global_attributes =
        GlobalAttrsFrom(content,
                        {q \in 1..Len(content) : GlobalAttrMatchAt(content, q) # <<>>},
                        1, @)]

\* `$` without re.MULTILINE: the end of the text, or just before a final newline
AtEnd(s, e) == e = Len(s) + 1 \/ (e = Len(s) /\ s[e] = NL)

\* the last newline of s[a..b], 0 if there is none
LastNewline(s, a, b) ==
    With({j \in a..b : s[j] = NL}, LAMBDA N :
         IF N = {} THEN 0 ELSE CHOOSE j \in N : \A k \in N : k <= j)

\* the last newline of the white space that follows marker + ":" at p, which
\* is where the greedy \s* of marker + r":\s*\n" hands over to \n; 0 when the
\* pattern does not match at p
MarkerNewline(s, p, marker) ==
    IF StartsWithAt(s, p, marker \o <<":">>)
    THEN LastNewline(s, p + Len(marker) + 1,
                     SkipIn(s, p + Len(marker) + 1, Space) - 1)
    ELSE 0

\* where group 1 of marker + r":\s*\n(.*?)" starts, for the leftmost match;
\* 0 when nothing matches
SectionStart(s, marker) ==
    With({p \in 1..Len(s) : MarkerNewline(s, p, marker) > 0}, LAMBDA P :
         IF P = {} THEN 0 ELSE MarkerNewline(s, Min(P), marker) + 1)

\* where the lazy (.*?) stops: the first position at or after g at which the
\* lookahead (?=stop:|$) holds
SectionEnd(s, g, stop) ==
    Min({e \in g..(Len(s) + 1) : StartsWithAt(s, e, stop \o <<":">>) \/ AtEnd(s, e)})

\* re.search(marker + r":\s*\n(.*?)(?=stop:|$)", content, re.DOTALL):
\* <<group 1>>, or <<>> when there is no match
SectionSearch(s, marker, stop) ==
    With(SectionStart(s, marker), LAMBDA g :
         IF g = 0 THEN <<>> ELSE <<SubSeq(s, g, SectionEnd(s, g, stop) - 1)>>)

\* int() of a text: <<n>>, or <<>> where Python raises ValueError.  Digits
\* may be grouped by single underscores; a sign is allowed
DigitVal(c) == CHOOSE n \in 0..9 : <<"0", "1", "2", "3", "4", "5", "6", "7", "8", "9">>[n + 1] = c
RECURSIVE DigitsValue(_, _, _)
DigitsValue(t, i, acc) ==
    IF i > Len(t) THEN acc
    ELSE IF t[i] = "_" THEN DigitsValue(t, i + 1, acc)
         ELSE DigitsValue(t, i + 1, 10 * acc + DigitVal(t[i]))
IsDigitGroups(t) ==
    /\ t # <<>>
    /\ \A i \in 1..Len(t) : t[i] \in Digit \cup {"_"}
    /\ t[1] # "_" /\ t[Len(t)] # "_"
    /\ \A i \in 1..(Len(t) - 1) : ~(t[i] = "_" /\ t[i + 1] = "_")
PyInt(t) ==
    With(t # <<>> /\ t[1] \in {"+", "-"}, LAMBDA signed :
    With(IF signed THEN Tail(t) ELSE t, LAMBDA body :
         IF ~IsDigitGroups(body) THEN <<>>
         ELSE IF signed /\ t[1] = "-" THEN <<0 - DigitsValue(body, 1, 0)>>
              ELSE <<DigitsValue(body, 1, 0)>>))

\* CDLDimension(name, size); size None is <<>>, an integer n is <<n>>
CDLDimension(name, size) == [name |-> name, size |-> size]

\* the size of a dimension from its matched text (lines 97-104)
DimSize(dim_size_str) ==
    IF dim_size_str = <<"_">> THEN <<>> ELSE PyInt(dim_size_str)

\* the characters the size of dim_pattern is made of: [_\d]
DimSizeChar == Digit \cup {"_"}

\* one try of r"(\w+)\s*=\s*([_\d]+|\d+)" at position p:
\* <<name, size text, end>>, or <<>>
DimMatchAt(s, p) ==
    With(SkipIn(s, p, WordChar), LAMBDA b :
    With(SkipIn(s, b, Space), LAMBDA c :
    With(SkipIn(s, c + 1, Space), LAMBDA d :
    With(SkipIn(s, d, DimSizeChar), LAMBDA e :
         IF /\ b > p
            /\ c <= Len(s) /\ s[c] = "="
            /\ e > d
         THEN <<SubSeq(s, p, b - 1), SubSeq(s, d, e - 1), e>>
         ELSE <<>>))))

\* the loop of lines 93-106 over re.finditer(dim_pattern, dim_content)
RECURSIVE DimsFrom(_, _, _, _)
DimsFrom(s, M, p, dims) ==
    With({q \in M : q >= p}, LAMBDA R :
         IF R = {} THEN dims
         ELSE With(DimMatchAt(s, Min(R)), LAMBDA m :
                   DimsFrom(s, M, m[3],
                            DictSet(dims, m[1],
                                    CDLDimension(m[1], DimSize(Strip(m[2])))))))

\* _parse_dimensions
ParseDimensions(self, content) ==
    With(SectionSearch(content, W_dimensions, W_variables), LAMBDA dim_match :
         IF dim_match = <<>> THEN self
         ELSE [self EXCEPT !.dimensions =
                  DimsFrom(dim_match[1],
                           {q \in 1..Len(dim_match[1]) :
                               DimMatchAt(dim_match[1], q) # <<>>},
                           1, @)])

\* the lookahead (?=\w+\s+\w+) at position r
DeclLookahead(s, r) ==
    With(SkipIn(s, r, WordChar), LAMBDA b :
    With(SkipIn(s, b, Space), LAMBDA c :
         b > r /\ c > b /\ c <= Len(s) /\ s[c] \in WordChar))

\* re.split(r"\n\s*(?=\w+\s+\w+)", var_content): M is the set of positions
\* where the separator matches, bs where the current block starts.  A
\* separator runs from its newline to the end of the white space
RECURSIVE SplitBlocksFrom(_, _, _)
SplitBlocksFrom(s, M, bs) ==
    With({q \in M : q >= bs}, LAMBDA R :
         IF R = {} THEN <<SubSeq(s, bs, Len(s))>>
         ELSE <<SubSeq(s, bs, Min(R) - 1)>>
              \o SplitBlocksFrom(s, M, SkipIn(s, Min(R) + 1, Space)))
SplitBlocks(s) ==
    SplitBlocksFrom(s, {p \in 1..Len(s) :
                           s[p] = NL /\ DeclLookahead(s, SkipIn(s, p + 1, Space))}, 1)

\* re.match(r"(\w+)\s+(\w+)(?:\(([^)]+)\))?\s*;", decl_line):
\* <<data_type, var_name, dimensions_str>>, or <<>>
DeclMatch(l) ==
    With(SkipIn(l, 1, WordChar), LAMBDA a :
    With(SkipIn(l, a, Space), LAMBDA b :
    With(SkipIn(l, b, WordChar), LAMBDA c :
    With(SkipNotIn(l, c + 1, {")"}), LAMBDA e :
    With(c <= Len(l) /\ l[c] = "(" /\ e > c + 1 /\ e <= Len(l), LAMBDA grouped :
    With(SkipIn(l, IF grouped THEN e + 1 ELSE c, Space), LAMBDA f :
         IF a > 1 /\ b > a /\ c > b /\ f <= Len(l) /\ l[f] = ";"
         THEN <<SubSeq(l, 1, a - 1), SubSeq(l, b, c - 1),
                IF grouped THEN SubSeq(l, c + 1, e - 1) ELSE <<>> >>
         ELSE <<>>))))))

\* the common start r"(\w+):(\w+)\s*=" of both attribute patterns:
\* <<group 1, group 2, the position after "=">>, or <<>>
AttrHead(l) ==
    With(SkipIn(l, 1, WordChar), LAMBDA a :
    With(SkipIn(l, a + 1, WordChar), LAMBDA b :
    With(SkipIn(l, b, Space), LAMBDA c :
         IF /\ a > 1 /\ a <= Len(l) /\ l[a] = ":"
            /\ b > a + 1
            /\ c <= Len(l) /\ l[c] = "="
         THEN <<SubSeq(l, 1, a - 1), SubSeq(l, a + 1, b - 1), c + 1>>
         ELSE <<>>)))

\* the rest r'\s*"([^"]*)"' of the quoted pattern from position h:
\* <<group 3>>, or <<>>
QuotedAttrValue(l, h) ==
    With(SkipIn(l, h, Space), LAMBDA d :
    With(SkipNotIn(l, d + 1, {"\""}), LAMBDA e :
         IF d <= Len(l) /\ l[d] = "\"" /\ e <= Len(l)
         THEN <<SubSeq(l, d + 1, e - 1)>> ELSE <<>>))

\* the rest r"\s*([^;]+)" of the unquoted pattern from position h: <<group 3>>,
\* or <<>>.  When the white space after "=" runs up to a ";" or to the end of
\* the line, the \s* gives its last character back to ([^;]+)
UnquotedAttrValue(l, h) ==
    With(SkipIn(l, h, Space), LAMBDA d :
         IF d <= Len(l) /\ l[d] # ";"
         THEN <<SubSeq(l, d, SkipNotIn(l, d, {";"}) - 1)>>
         ELSE IF d > h THEN <<SubSeq(l, d - 1, d - 1)>> ELSE <<>>)

\* float() accepts the text: [sign] digits "." [digits] | [sign] "." digits,
\* with an optional exponent e[sign]digits
IsFloatText(t) ==
    With(IF t # <<>> /\ t[1] \in {"+", "-"} THEN Tail(t) ELSE t, LAMBDA u :
    With(SkipIn(u, 1, Digit), LAMBDA a :
    With(SkipIn(u, a + 1, Digit), LAMBDA b :
    With(IF b + 1 <= Len(u) /\ u[b + 1] \in {"+", "-"} THEN b + 2 ELSE b + 1, LAMBDA x :
         /\ a <= Len(u) /\ u[a] = "."
         /\ (a > 1 \/ b > a + 1)
         /\ \/ b = Len(u) + 1
            \/ /\ u[b] \in {"e", "E"}
               /\ x <= Len(u)
               /\ SkipIn(u, x, Digit) = Len(u) + 1))))

\* an attribute value: a str, or the int or float the text was coerced to
StrValue(t) == [kind |-> "str", text |-> t]
IntValue(n) == [kind |-> "int", value |-> n]
FloatValue(t) == [kind |-> "float", text |-> t]

\* lines 168-175: float if the text contains ".", else int; the text itself
\* where that raises ValueError
Coerce(attr_value) ==
    IF Contains(attr_value, <<".">>)
    THEN IF IsFloatText(attr_value) THEN FloatValue(attr_value) ELSE StrValue(attr_value)
    ELSE With(PyInt(attr_value), LAMBDA n :
              IF n # <<>> THEN IntValue(n[1]) ELSE StrValue(attr_value))

OwnsLine_any_owner(h, var_name) == TRUE
\* the test `attr_match.group(1) == var_name` of lines 157 and 164
OwnsLine(h, var_name) == h[1] = var_name

\* the body of the loop of lines 150-177 for one line of the block.  Both
\* patterns begin alike, so groups 1 and 2 are the same in both: the quoted
\* pattern is tried first, the unquoted one when it does not match
ParseAttrLine(attributes, var_name, raw) ==
    With(Strip(raw), LAMBDA line :
    With(AttrHead(line), LAMBDA h :
         IF line = <<>> \/ line = <<";">> \/ h = <<>> THEN attributes
         ELSE IF ~OwnsLine(h, var_name) THEN attributes
         ELSE With(QuotedAttrValue(line, h[3]), LAMBDA q :
                   IF q # <<>> THEN DictSet(attributes, h[2], StrValue(q[1]))
                   ELSE With(UnquotedAttrValue(line, h[3]), LAMBDA u :
                             IF u # <<>>
                             THEN DictSet(attributes, h[2], Coerce(Strip(u[1])))
                             ELSE attributes))))

RECURSIVE ParseAttrLines(_, _, _, _)
ParseAttrLines(attributes, var_name, lines, i) ==
    IF i > Len(lines) THEN attributes
    ELSE ParseAttrLines(ParseAttrLine(attributes, var_name, lines[i]),
                        var_name, lines, i + 1)

\* CDLVariable(name, data_type, dimensions, attributes)
CDLVariable(name, data_type, dimensions, attributes) ==
    [name |-> name, data_type |-> data_type,
     dimensions |-> dimensions, attributes |-> attributes]

\* lines 143-146: the names between the parentheses
DimensionList(dimensions_str) ==
    IF dimensions_str = <<>> THEN <<>>
    ELSE With(Split(dimensions_str, ","), LAMBDA parts :
              [i \in 1..Len(parts) |-> Strip(parts[i])])

ParseVariableBlock_clears(variables, block) ==
    With(Split(Strip(block), NL), LAMBDA lines :
    With(DeclMatch(Strip(lines[1])), LAMBDA var_match :
         IF var_match = <<>> THEN <<>>
         ELSE DictSet(variables, var_match[2],
                      CDLVariable(var_match[2], var_match[1],
                                  DimensionList(var_match[3]),
                                  ParseAttrLines(<<>>, var_match[2], lines, 2)))))

\* _parse_variable_block: the variables dict after the block
ParseVariableBlock(variables, block) ==
    With(Split(Strip(block), NL), LAMBDA lines :
    With(DeclMatch(Strip(lines[1])), LAMBDA var_match :
         IF var_match = <<>> THEN variables
         ELSE DictSet(variables, var_match[2],
                      CDLVariable(var_match[2], var_match[1],
                                  DimensionList(var_match[3]),
                                  ParseAttrLines(<<>>, var_match[2], lines, 2)))))

RECURSIVE ParseBlocks(_, _, _)
ParseBlocks(variables, blocks, i) ==
    IF i > Len(blocks) THEN variables
    ELSE ParseBlocks(IF Strip(blocks[i]) = <<>> THEN variables
                     ELSE ParseVariableBlock(variables, blocks[i]),
                     blocks, i + 1)

\* _parse_variables
ParseVariables(self, content) ==
    With(SectionSearch(content, W_variables, W_data), LAMBDA var_match :
         IF var_match = <<>> THEN self
         ELSE [self EXCEPT !.variables = ParseBlocks(@, SplitBlocks(var_match[1]), 1)])

\* the three calls of lines 58-60: the parser after them
ParseSections(self, content) ==
    ParseVariables(ParseDimensions(ParseGlobalAttributes(self, content), content),
                   content)

\* parse_cdl_file, after the file has been read: the dict it returns, which
\* holds the three mappings of the parser after the call
ParseCdlFile(self, cdl_path, content) ==
    With(ParseSections(self, StripComments(content)), LAMBDA after :
         [global_attributes |-> after.global_attributes,
          dimensions |-> after.dimensions,
          variables |-> after.variables,
          source_file |-> cdl_path])

\* the default of --base-url (line 452) and the schema suffix (line 490)
DefaultBaseUrl == <<"h", "t", "t", "p", "s", ":", "/", "/", "s", "c", "h", "e", "m", "a", "s", ".", "s", "t", "a", "n", "d", "a", "r", "d", "-", "i", "n", "t", "e", "r", "f", "a", "c", "e", "s", ".", "o", "r", "g">>
SchemaSuffix == <<".", "s", "c", "h", "e", "m", "a", ".", "j", "s", "o", "n">>

(***************************************************************************)
(* JSONSchemaGenerator.  A document is a record; "$schema", "$id" and      *)
(* "x-source" are its fields schema, id and x_source.  The properties of a *)
(* per-variable schema and its required list are keyed by their fixed      *)
(* names, as strings; an f-string is the sequence of its parts.            *)
(***************************************************************************)
\* bool(v) of an attribute value
FloatIsZero(t) ==
    \A i \in 1..(SkipNotIn(t, 1, {"e", "E"}) - 1) : t[i] \in {"0", ".", "+", "-"}
Truthy(v) ==
    CASE v.kind = "str" -> v.text # <<>>
      [] v.kind = "int" -> v.value # 0
      [] v.kind = "float" -> ~FloatIsZero(v.text)

\* the domain_prefixes dict of _detect_domain, in its order
DomainPrefixes ==
    << <<W_pf_p, W_pf_active>>, <<W_tf_p, W_tf_active>>, <<W_plasma_p, W_plasma>>,
       <<W_vessel_p, W_vessel>>, <<W_diag_p, W_diagnostics>>, <<W_eq_p, W_equilibrium>> >>

\* a _detect_domain whose loops are swapped: the first prefix, in the order
\* of domain_prefixes, that some variable name starts with
DetectDomain_prefix_first(variables) ==
    With({j \in 1..Len(DomainPrefixes) :
             \E i \in 1..Len(variables) :
                StartsWith(variables[i][1], DomainPrefixes[j][1])}, LAMBDA J :
         IF J = {} THEN W_base ELSE DomainPrefixes[Min(J)][2])

\* _detect_domain: the first variable, in the order of the dict, whose name
\* starts with a prefix, and for it the first such prefix
DetectDomain(variables) ==
    LET Hits(i) == {j \in 1..Len(DomainPrefixes) :
                       StartsWith(variables[i][1], DomainPrefixes[j][1])}
        H == {i \in 1..Len(variables) : Hits(i) # {}}
    IN  IF H = {} THEN W_base
        ELSE DomainPrefixes[Min(Hits(Min(H)))][2]

\* a dimension property whose _element branch was copied from the _node one
DimensionProperty_element_as_node(dim_name) ==
    IF EndsWith(dim_name, W_node) \/ EndsWith(dim_name, W_element)
    THEN [type |-> "integer", minimum |-> 3,
          description |-> <<"Dimension: ", dim_name, " (minimum 3 for polygon nodes)">>]
    ELSE [type |-> "integer", minimum |-> 1,
          description |-> <<"Dimension: ", dim_name>>]

\* the property of one dimension (lines 252-265)
DimensionProperty(dim_name) ==
    IF EndsWith(dim_name, W_node)
    THEN [type |-> "integer", minimum |-> 3,
          description |-> <<"Dimension: ", dim_name, " (minimum 3 for polygon nodes)">>]
    ELSE IF EndsWith(dim_name, W_element)
         THEN [type |-> "integer", minimum |-> 1,
               description |-> <<"Dimension: ", dim_name, " (number of elements)">>]
         ELSE [type |-> "integer", minimum |-> 1,
               description |-> <<"Dimension: ", dim_name>>]

\* a dimensions section as open as the others
DimensionsAdditional_open == TRUE

\* the additionalProperties of the dimensions section (line 274)
DimensionsAdditional == FALSE

\* _generate_dimensions_schema
GenerateDimensionsSchema(dimensions) ==
    [type |-> "object",
     description |-> "Dimension definitions",
     properties |-> [i \in 1..Len(dimensions) |->
                        <<dimensions[i][1], DimensionProperty(dimensions[i][1])>>],
     required |-> DictKeys(dimensions),
     additionalProperties |-> DimensionsAdditional]

\* the properties of a per-variable schema (lines 316-386), in the order the
\* code adds them
VariableProperties(variable) ==
    LET has(k) == DictHas(variable.attributes, k)
        opt(c, entry) == IF c THEN <<entry>> ELSE <<>>
    IN  opt(variable.dimensions # <<>>,
            <<"dimensions",
              [type |-> "array",
               items |-> [type |-> "string", pattern |-> "^[a-zA-Z_][a-zA-Z0-9_]*$"],
               minItems |-> Len(variable.dimensions),
               maxItems |-> Len(variable.dimensions),
               description |-> "Dimension names for this variable"]>>)
        \o opt(has(W_units),
               <<"units", [type |-> "string", description |-> "Units of measurement",
                           examples |-> IF has(W_units)
                                        THEN <<DictGet(variable.attributes, W_units)>>
                                        ELSE <<>>]>>)
        \o opt(has(W_long_name),
               <<"long_name", [type |-> "string",
                               description |-> "Descriptive name for the variable"]>>)
        \o opt(has(W_standard_name),
               <<"standard_name", [type |-> "string", description |-> "CF standard name"]>>)
        \o opt(has(W_geometry_type),
               <<"geometry_type", [type |-> "string",
                                   enum |-> <<"polygon", "line", "point">>,
                                   description |-> "Type of geometry represented"]>>)
        \o opt(has(W_node_coordinates),
               <<"node_coordinates",
                 [type |-> "string",
                  pattern |-> "^[a-zA-Z_][a-zA-Z0-9_]*\\s+[a-zA-Z_][a-zA-Z0-9_]*$",
                  description |-> "Space-separated coordinate variable names"]>>)
        \o opt(has(W_node_count),
               <<"node_count", [type |-> "string", pattern |-> "^[a-zA-Z_][a-zA-Z0-9_]*$",
                                description |-> "Variable containing node count per element"]>>)
        \o opt(has(W_FillValue),
               <<"_FillValue", [type |-> "number",
                                description |-> "Value used for missing data"]>>)
        \o opt(has(W_valid_min),
               <<"valid_min", [type |-> "number", description |-> "Minimum valid value"]>>)
        \o opt(has(W_valid_max),
               <<"valid_max", [type |-> "number", description |-> "Maximum valid value"]>>)

\* a required list that names geometry_type alone for a geometry container
VariableRequired_geometry_type_only(variable) ==
    (IF variable.dimensions # <<>> THEN <<"dimensions">> ELSE <<>>)
    \o (IF DictHas(variable.attributes, W_units) THEN <<"units">> ELSE <<>>)
    \o (IF DictHas(variable.attributes, W_geometry_type)
        THEN <<"geometry_type">> ELSE <<>>)

\* the required list of a per-variable schema (lines 389-395)
VariableRequired(variable) ==
    (IF variable.dimensions # <<>> THEN <<"dimensions">> ELSE <<>>)
    \o (IF DictHas(variable.attributes, W_units) THEN <<"units">> ELSE <<>>)
    \o (IF DictHas(variable.attributes, W_geometry_type)
        THEN <<"geometry_type", "node_coordinates", "node_count">> ELSE <<>>)

\* _generate_variable_schema: the key "required" is set only for a non-empty
\* list (lines 397-398)
GenerateVariableSchema(variable) ==
    LET description ==
            IF DictHas(variable.attributes, W_long_name)
            THEN DictGet(variable.attributes, W_long_name)
            ELSE <<"Variable: ", variable.name>>
        required == VariableRequired(variable)
    IN  IF required # <<>>
        THEN [type |-> "object", description |-> description,
              properties |-> VariableProperties(variable),
              required |-> required, additionalProperties |-> TRUE]
        ELSE [type |-> "object", description |-> description,
              properties |-> VariableProperties(variable),
              additionalProperties |-> TRUE]

\* the test of lines 290-294: attributes.get(k) is None without the key
VariableIsRequired(var_name, var_obj) ==
    LET get(k) == DictHas(var_obj.attributes, k)
                  /\ Truthy(DictGet(var_obj.attributes, k))
    IN  get(W_geometry_type) \/ get(W_units) \/ Contains(var_name, W_geometry)

\* _generate_variables_schema
GenerateVariablesSchema(variables) ==
    [type |-> "object",
     description |-> "Variable definitions",
     properties |-> [i \in 1..Len(variables) |->
                        <<variables[i][1], GenerateVariableSchema(variables[i][2])>>],
     required |-> SelectSeq(DictKeys(variables),
                            LAMBDA n : VariableIsRequired(n, DictGet(variables, n))),
     additionalProperties |-> TRUE]

\* _generate_global_attributes_schema
GenerateGlobalAttributesSchema(global_attrs) ==
    [type |-> "object",
     description |-> "Global metadata attributes",
     properties |->
        << <<"title", [type |-> "string", description |-> "Title of the dataset"]>>,
           <<"institution", [type |-> "string",
                             description |-> "Institution responsible for the data"]>>,
           <<"source", [type |-> "string",
                        description |-> "Method of production of the original data"]>>,
           <<"conventions", [type |-> "string",
                             description |-> "Name of conventions followed",
                             examples |-> <<"CF-1.8", "CF-1.8, IMAS-3.0">>]>>,
           <<"comment", [type |-> "string",
                         description |-> "Additional information about the dataset"]>> >>,
     additionalProperties |-> TRUE]

\* the "$id" of a document (line 200)
SchemaUrl(base_url, domain, schema_id) ==
    base_url \o <<"/">> \o domain \o <<"/">> \o schema_id

\* generate_schema; now is what datetime.now().isoformat() returns
GenerateSchema(base_url, cdl_data, schema_id, now) ==
    LET domain == DetectDomain(cdl_data.variables)
        titled == DictHas(cdl_data.global_attributes, W_title)
        title == DictGet(cdl_data.global_attributes, W_title)
    IN  [schema |-> "http://json-schema.org/draft-07/schema#",
         id |-> SchemaUrl(base_url, domain, schema_id),
         title |-> IF titled THEN <<title>> ELSE <<"NetCDF Schema">>,
         description |-> <<"Schema for ",
                           IF titled THEN <<title>> ELSE <<"NetCDF data">>,
                           " - Generated from CDL">>,
         type |-> "object",
         properties |->
            [dimensions |-> GenerateDimensionsSchema(cdl_data.dimensions),
             variables |-> GenerateVariablesSchema(cdl_data.variables),
             global_attributes |->
                GenerateGlobalAttributesSchema(cdl_data.global_attributes)],
         required |-> <<"dimensions", "variables">>,
         additionalProperties |-> TRUE,
         x_source |-> [format |-> "CDL", file |-> cdl_data.source_file,
                       generated |-> now, generator |-> "cdl_to_json_schema.py"]]

(***************************************************************************)
(* CDL files: the layout of the definition files and of the test fixtures  *)
(***************************************************************************)
\* a dimensions entry "  <name> = <value> ;"
DimLine(name, value) ==
    <<" ", " ">> \o name \o <<" ", "=", " ">> \o value \o <<" ", ";", NL>>

\* a declaration "  <type> <name>(<dims>) ;"; a scalar has no parentheses
DeclLine(data_type, name, dims) ==
    <<" ", " ">> \o data_type \o <<" ">> \o name
    \o (IF dims = <<>> THEN <<>> ELSE <<"(">> \o Join(dims, <<",", " ">>) \o <<")">>)
    \o <<" ", ";", NL>>

\* an attribute line "    <owner>:<attr> = <value> ;", the value quoted or bare
AttrLine(owner, a) ==
    <<" ", " ", " ", " ">> \o owner \o <<":">> \o a.name \o <<" ", "=", " ">>
    \o (IF a.quoted THEN <<"\"">> \o a.value \o <<"\"">> ELSE a.value)
    \o <<" ", ";", NL>>

\* a global attribute line "  :<name> = "<value>" ;"
GlobalAttrLine(a) ==
    <<" ", " ", ":">> \o a.name \o <<" ", "=", " ", "\"">> \o a.value
    \o <<"\"", " ", ";", NL>>

\* a variable: its declaration, its attribute lines, a blank line
VarText(v) ==
    DeclLine(v.data_type, v.name, v.dims)
    \o Concat([i \in 1..Len(v.attrs) |-> AttrLine(v.name, v.attrs[i])])
    \o <<NL>>

\* the text of a CDL file
CdlText(f) ==
    W_netcdf \o <<" ">> \o f.name \o <<" ", "{", NL>>
    \o Concat([i \in 1..Len(f.gattrs) |-> GlobalAttrLine(f.gattrs[i])])
    \o W_dimensions \o <<":", NL>>
    \o Concat([i \in 1..Len(f.dims) |-> DimLine(f.dims[i].name, f.dims[i].value)])
    \o <<NL>>
    \o W_variables \o <<":", NL>>
    \o Concat([i \in 1..Len(f.vars) |-> VarText(f.vars[i])])
    \o <<"}">>

Attr(name, value, quoted) == [name |-> name, value |-> value, quoted |-> quoted]
VarDecl(data_type, name, dims, attrs) ==
    [data_type |-> data_type, name |-> name, dims |-> dims, attrs |-> attrs]
DimDecl(name, value) == [name |-> name, value |-> value]

\* the minimal_cdl fixture
MinimalCdl ==
    [name |-> W_minimal_coil_current,
     gattrs |-> <<>>,
     dims |-> <<DimDecl(W_time, W_UNLIMITED), DimDecl(W_coil, <<"1">>)>>,
     vars |-> <<VarDecl(W_double, W_time, <<W_time>>, <<Attr(W_units, W_s, TRUE)>>),
                VarDecl(W_double, W_coil_current, <<W_time, W_coil>>,
                        <<Attr(W_units, W_A, TRUE)>>)>>]


(***************************************************************************)
(* The inputs the model draws                                              *)
(***************************************************************************)
W_outline_geometry == <<"o", "u", "t", "l", "i", "n", "e", "_", "g", "e", "o", "m", "e", "t", "r", "y">>
W_coil_name == <<"c", "o", "i", "l", "_", "n", "a", "m", "e">>
W_int == <<"i", "n", "t">>
W_zero_float == <<"0", ".", "0">>
W_fill == <<"1", ".", "e", "+", "2", "0">>

\* the most dimensions and the most variables a drawn file declares
MaxDims == 2
MaxVars == 2

\* the dimension entries files are drawn from, in the order they keep
DimPool ==
    <<DimDecl(W_time, W_UNLIMITED), DimDecl(W_coil, <<"1">>),
      DimDecl(W_polygon_node, <<"_">>), DimDecl(W_foo_element, <<"1", "2">>)>>

\* the variables files are drawn from
VarPool ==
    <<VarDecl(W_double, W_time, <<W_time>>, <<Attr(W_units, W_s, TRUE)>>),
      VarDecl(W_double, W_coil_current, <<W_time, W_coil>>,
              <<Attr(W_units, W_A, TRUE)>>),
      VarDecl(W_double, W_pf_coil_current, <<W_time, W_coil>>,
              <<Attr(W_units, <<>>, TRUE), Attr(W_long_name, W_coil, TRUE)>>),
      VarDecl(W_int, W_outline_geometry, <<>>,
              <<Attr(W_geometry_type, W_polygon, TRUE),
                Attr(W_node_coordinates, W_rz, TRUE),
                Attr(W_node_count, W_polygon_node_count, TRUE)>>),
      VarDecl(W_double, W_eq_psi, <<W_polygon_node>>,
              <<Attr(W_valid_min, W_zero_float, FALSE),
                Attr(W_FillValue, W_fill, FALSE),
                Attr(W_standard_name, W_time, TRUE)>>),
      VarDecl(W_int, W_coil_name, <<W_coil>>, <<Attr(W_long_name, W_coil, TRUE)>>)>>

\* the members of pool at the positions of the set I, in the pool's order
RECURSIVE Pick(_, _, _)
Pick(pool, I, i) ==
    IF i > Len(pool) THEN <<>>
    ELSE (IF i \in I THEN <<pool[i]>> ELSE <<>>) \o Pick(pool, I, i + 1)

\* the lists of at most n positions of 1..m
RECURSIVE Arrangements(_, _)
Arrangements(m, n) ==
    IF n = 0 THEN {<<>>}
    ELSE LET A == Arrangements(m, n - 1)
         IN  A \cup {Append(q, k) : q \in {r \in A : Len(r) = n - 1}, k \in 1..m}

DimLists ==
    {Pick(DimPool, I, 1) : I \in {J \in SUBSET (1..Len(DimPool)) : Cardinality(J) <= MaxDims}}
VarLists ==
    {[i \in 1..Len(q) |-> VarPool[q[i]]] :
        q \in {r \in Arrangements(Len(VarPool), MaxVars) :
                  \A i, j \in 1..Len(r) : i # j => r[i] # r[j]}}

\* a current for each prefix of domain_prefixes, and files of one or two of
\* them in either order
PrefixedVars ==
    {VarDecl(W_double, DomainPrefixes[j][1] \o W_coil_current, <<W_time, W_coil>>,
             <<Attr(W_units, W_A, TRUE)>>) : j \in 1..Len(DomainPrefixes)}
DomainFiles ==
    {[name |-> W_minimal_coil_current, gattrs |-> <<>>, dims |-> <<DimPool[2]>>, vars |-> v] :
        v \in {<<a>> : a \in PrefixedVars}
               \cup {q \in (PrefixedVars \cup {VarPool[2]}) \X PrefixedVars :
                        q[1] # q[2]}}

\* files of one geometry container that has some of the attributes
\* geometry_type, node_coordinates and node_count
GeometryFiles ==
    {[name |-> W_minimal_coil_current, gattrs |-> <<>>, dims |-> <<DimPool[2]>>,
      vars |-> <<VarDecl(W_int, W_outline_geometry, <<>>, Pick(VarPool[4].attrs, I, 1))>>] :
        I \in SUBSET (1..Len(VarPool[4].attrs))}

\* the files a conversion is drawn from
CdlFiles ==
    {[name |-> W_minimal_coil_current, gattrs |-> <<>>, dims |-> d, vars |-> v] :
        d \in DimLists, v \in VarLists}
    \cup DomainFiles \cup GeometryFiles


(***************************************************************************)
(* main(): the batch converter                                             *)
(*                                                                         *)
(* A path is the sequence of its components under the input root: <<>> is  *)
(* the root, <<d>> a directory, <<d, stem>> the file d/stem.cdl.  An       *)
(* output file is [domain, name] under the output root.                    *)
(***************************************************************************)
VARIABLES
    definitions,  \* the input files: path -> [cdl, readable]
    dirs,         \* the input directories that exist
    schemas,      \* the output files: [domain, name] -> the document written
    clock,        \* what datetime.now() returns next
    budget,       \* how many more times main() is run
    pc,           \* "idle" | "loop" | "exit1"
    args,         \* the parsed command line: input_path, base_url, force
    cdl_files,    \* the files the loop has still to process
    cdl_file,     \* the names bound by the last iteration of the loop
    parser_obj,
    cdl_data,
    schema_id,
    schema,
    output_file,
    status,       \* how it ended: "error" | "skipped" | "generated" ("unbound"
                  \* outside the loop)
    attrs,        \* the arguments of the last StandardAttrs(...) call
    raised,       \* how the last call ended: "none", or the exception's type
    call,         \* the last call into validator.py: [fn, arg]
    errors,       \* the messages of a ValidationError, in their order
    returned,     \* what the call returned
    parse_calls,  \* the parse_cdl_file calls made on parser_obj from outside
    build         \* build.py, once it has validated: its missing_schemas
                  \* main(): the file, the dict as returned, the dict as it is

vars == <<definitions, dirs, schemas, clock, budget, pc, args, cdl_files,
          cdl_file, parser_obj, cdl_data, schema_id, schema, output_file, status,
          attrs, raised, call, errors, returned, parse_calls, build>>
converter == <<definitions, dirs, schemas, clock, budget, pc, args, cdl_files,
               cdl_file, parser_obj, cdl_data, schema_id, schema, output_file, status,
               parse_calls, build>>
validator == <<attrs, raised, call, errors, returned>>
locals == <<cdl_file, parser_obj, cdl_data, schema_id, schema, output_file, status>>

\* a name that is not bound (yet)
Unbound == <<>>

W_coil_current_dash == <<"c", "o", "i", "l", "-", "c", "u", "r", "r", "e", "n", "t">>
W_missing == <<"m", "i", "s", "s", "i", "n", "g">>
W_empty == <<"e", "m", "p", "t", "y">>

\* how many times main() is run
MaxRuns == 2

\* str.replace(old, new) for one-character old and new
Replace(t, old, new) == [i \in 1..Len(t) |-> IF t[i] = old THEN new ELSE t[i]]

\* Path.is_file(), Path.is_dir(), and the files of Path.rglob("*.cdl")
IsFile(path) == path \in DOMAIN definitions
IsDir(path) == path \in dirs
Rglob(path) ==
    {f \in DOMAIN definitions : Len(f) > Len(path) /\ SubSeq(f, 1, Len(path)) = path}

\* the orders a set of files can be listed in
Orders(F) ==
    {q \in [1..Cardinality(F) -> F] : \A i, j \in 1..Cardinality(F) : i # j => q[i] # q[j]}

\* the schema id of line 490
SchemaId(path) == Replace(path[Len(path)], "_", "-") \o SchemaSuffix

\* a routing that writes every schema below base
RouteDomain_base(data) == W_base

\* the domain the output is routed by (line 496)
RouteDomain(data) == DetectDomain(data.variables)

\* a parser kept from one file to the next
FreshParser_shared == IF parser_obj = Unbound THEN NewParser ELSE parser_obj

\* the parser made for each file (line 485)
FreshParser == NewParser

\* a skip of every output that exists, whatever --force says
Skip_whatever_force(exists, force) == exists

\* line 503: the output exists and --force was not given
Skip(exists, force) == exists /\ ~force

\* an except clause that gives the batch up
AfterError_abort(rest) == <<>>

\* lines 514-516: the error is printed and the loop continues with the files
\* that are left
AfterError(rest) == rest

\* an output opened under the output root before the file is parsed
OnError_opened_first(files, path) ==
    [o \in DOMAIN files \cup {[domain |-> W_base, name |-> SchemaId(path)]} |-> <<>>]

\* the output files after an iteration that raised in parse_cdl_file (line
\* 487): open(output_file, "w") is at line 509, so none was touched
OnError(files, path) == files

\* lines 509-510: the document is written to the output file
Write(files, out, doc) ==
    [o \in DOMAIN files \cup {out} |-> IF o = out THEN doc ELSE files[o]]

\* lines 439-477: the command line, the output root, the files to process
Main(input_path, force) ==
    /\ pc = "idle"
    /\ budget > 0
    /\ budget' = budget - 1
    /\ args' = [input_path |-> input_path, base_url |-> DefaultBaseUrl, force |-> force]
    /\ \E found \in (IF IsFile(input_path) THEN {<<input_path>>}
                     ELSE IF IsDir(input_path) THEN Orders(Rglob(input_path))
                          ELSE {<<>>}) :
          /\ cdl_files' = found
          /\ pc' = IF found = <<>> THEN "exit1" ELSE "loop"
    /\ UNCHANGED <<definitions, dirs, schemas, clock, locals, validator, parse_calls,
                   build>>

\* lines 480-516: one iteration of the loop.  A file that cannot be read
\* raises in parse_cdl_file, after the fresh parser was made
ProcessFile ==
    /\ pc = "loop"
    /\ cdl_files # <<>>
    /\ cdl_file' = Head(cdl_files)
    /\ IF ~definitions[Head(cdl_files)].readable
       THEN /\ status' = "error"
            /\ parser_obj' = FreshParser
            /\ schemas' = OnError(schemas, Head(cdl_files))
            /\ cdl_files' = AfterError(Tail(cdl_files))
            /\ UNCHANGED <<cdl_data, schema_id, schema, output_file, clock>>
       ELSE \E parsed \in {ParseCdlFile(FreshParser, Head(cdl_files),
                                        CdlText(definitions[Head(cdl_files)].cdl))},
               id \in {SchemaId(Head(cdl_files))} :
            \E doc \in {GenerateSchema(args.base_url, parsed, id, clock)},
               out \in {[domain |-> RouteDomain(parsed), name |-> id]} :
               /\ parser_obj' = [global_attributes |-> parsed.global_attributes,
                                 dimensions |-> parsed.dimensions,
                                 variables |-> parsed.variables]
               /\ cdl_data' = parsed
               /\ schema_id' = id
               /\ schema' = doc
               /\ clock' = clock + 1
               /\ output_file' = out
               /\ cdl_files' = Tail(cdl_files)
               /\ IF Skip(out \in DOMAIN schemas, args.force)
                  THEN status' = "skipped" /\ UNCHANGED schemas
                  ELSE /\ status' = "generated"
                       /\ schemas' = Write(schemas, out, doc)
    /\ UNCHANGED <<definitions, dirs, budget, pc, args, validator, parse_calls,
                   build>>

\* line 518, and the end of the process: nothing stays bound
Complete ==
    /\ \/ pc = "loop" /\ cdl_files = <<>>
       \/ pc = "exit1"
    /\ pc' = "idle"
    /\ args' = Unbound
    /\ cdl_files' = <<>>
    /\ cdl_file' = Unbound /\ parser_obj' = Unbound /\ cdl_data' = Unbound
    /\ schema_id' = Unbound /\ schema' = Unbound /\ output_file' = Unbound
    /\ status' = "unbound"
    /\ UNCHANGED <<definitions, dirs, schemas, clock, budget, validator, parse_calls,
                   build>>

\* what the command line can name: a file, a directory, or neither
InputPaths == DOMAIN definitions \cup dirs \cup {<<W_missing>>}

Next ==
    \/ \E input_path \in InputPaths, force \in BOOLEAN : Main(input_path, force)
    \/ ProcessFile
    \/ Complete

InitProcess ==
    /\ schemas = <<>>
    /\ clock = 1
    /\ pc = "idle"
    /\ args = Unbound
    /\ cdl_files = <<>>
    /\ cdl_file = Unbound /\ parser_obj = Unbound /\ cdl_data = Unbound
    /\ schema_id = Unbound /\ schema = Unbound /\ output_file = Unbound
    /\ status = "unbound"
    /\ parse_calls = <<>>
    /\ build = Unbound

\* no StandardAttrs has been constructed
InitAttrs ==
    /\ attrs = Unbound /\ raised = Unbound
    /\ call = Unbound /\ errors = <<>> /\ returned = Unbound

\* a definitions tree: two files whose schema ids coincide, and two domains
TreeFile(ds, vs) ==
    [name |-> W_coil_current, gattrs |-> <<>>, dims |-> ds, vars |-> vs]
Tree ==
    LET a == <<W_pf_active, W_coil_current>>
        b == <<W_base, W_coil_current>>
        c == <<W_base, W_coil_current_dash>>
    IN  [f \in {a, b, c} |->
            IF f = a THEN TreeFile(<<DimPool[2]>>, <<VarPool[1], VarPool[3]>>)
            ELSE IF f = b THEN TreeFile(<<DimPool[2]>>, <<VarPool[2]>>)
                 ELSE TreeFile(<<DimPool[3]>>, <<VarPool[6]>>)]

\* main() run over the tree, some files of which cannot be read
Init ==
    /\ \E U \in SUBSET (DOMAIN Tree) :
          /\ Cardinality(U) <= 1
          /\ definitions = [f \in DOMAIN Tree |-> [cdl |-> Tree[f], readable |-> f \notin U]]
    /\ dirs = {<<>>, <<W_pf_active>>, <<W_base>>, <<W_empty>>}
    /\ budget = MaxRuns
    /\ InitProcess
    /\ InitAttrs

Spec == Init /\ [][Next]_vars

\* line 480: the for loop takes the next file.  ProcessFile is the one step
\* of Next that does, and it can be taken whenever a file is left
NextFile ==
    /\ pc = "loop"
    /\ cdl_files # <<>>
    /\ cdl_files' = Tail(cdl_files)

\* the same, with the loop of main() running on: while files are left, the
\* next one is taken
SpecFair == Init /\ [][Next]_vars /\ WF_cdl_files(NextFile)

\* main() run once on one file drawn from CdlFiles
InitConvert ==
    /\ \E f \in CdlFiles :
          definitions = [p \in {<<W_base, W_minimal_coil_current>>} |->
                            [cdl |-> f, readable |-> TRUE]]
    /\ dirs = {<<W_empty>>}
    /\ budget = 1
    /\ InitProcess
    /\ InitAttrs

SpecConvert == InitConvert /\ [][Next]_vars

(***************************************************************************)
(* build.py: the converter is run over the definitions root with --force,  *)
(* then every CDL file is looked up at the place its schema is expected.   *)
(***************************************************************************)
\* lines 97-99: rel_path.parent below the schemas root, and the stem with
\* "_" replaced by "-", then ".schema.json"
ExpectedSchema(path) ==
    [domain |-> Join(SubSeq(path, 1, Len(path) - 1), <<"/">>), name |-> SchemaId(path)]

\* lines 93-103: the CDL files below the definitions root whose expected
\* schema does not exist
MissingSchemas == {f \in Rglob(<<>>) : ExpectedSchema(f) \notin DOMAIN schemas}

\* lines 74-85: the command build.py runs
BuildConvert == Main(<<>>, TRUE)

\* lines 90-112, reached when the converter has exited with 0: it has found
\* files and has gone through them
BuildValidate ==
    /\ pc = "idle"
    /\ budget = 0
    /\ Rglob(<<>>) # {}
    /\ build = Unbound
    /\ build' = [missing_schemas |-> MissingSchemas]
    /\ UNCHANGED <<definitions, dirs, schemas, clock, budget, pc, args, cdl_files,
                   locals, validator, parse_calls>>

NextBuild ==
    \/ BuildConvert
    \/ ProcessFile
    \/ Complete
    \/ BuildValidate

\* the files of a definitions tree: one declaring a variable of the pf_
\* prefix, one declaring none
BuildFiles ==
    {TreeFile(<<DimPool[2]>>, <<VarPool[1], VarPool[3]>>),
     TreeFile(<<DimPool[2]>>, <<VarPool[1], VarPool[2]>>)}
BuildPaths ==
    {<<W_pf_active, W_coil_current>>, <<W_base, W_coil_current>>, <<W_base, W_coil_name>>}

\* build.py run once on a definitions tree, at most one file of which cannot
\* be read
InitBuild ==
    /\ \E tree \in [BuildPaths -> BuildFiles], U \in SUBSET BuildPaths :
          /\ Cardinality(U) <= 1
          /\ definitions = [f \in BuildPaths |-> [cdl |-> tree[f], readable |-> f \notin U]]
    /\ dirs = {<<>>, <<W_pf_active>>, <<W_base>>}
    /\ budget = 1
    /\ InitProcess
    /\ InitAttrs

SpecBuild == InitBuild /\ [][NextBuild]_vars

(***************************************************************************)
(* parse_cdl_file called on a parser of the caller's.  A file is the list   *)
(* of its lines, each kept as what it was written to be.                    *)
(***************************************************************************)
W_coil_data == <<"c", "o", "i", "l", "_", "d", "a", "t", "a">>
W_url == <<"h", ":", "/", "/", "x">>
W_data_x == <<"d", "a", "t", "a", ":", " ", "x">>

GlobalLine(a) == [kind |-> "global", a |-> a]
DimensionLine(d) == [kind |-> "dim", d |-> d]
DeclarationLine(data_type, name, dims) ==
    [kind |-> "decl", data_type |-> data_type, name |-> name, dims |-> dims]
AttributeLine(owner, a) == [kind |-> "attr", owner |-> owner, a |-> a]
MarkerLine(word) == [kind |-> "marker", word |-> word]
RawLine(text) == [kind |-> "raw", text |-> text]

\* the text of a line
LineText(l) ==
    CASE l.kind = "global" -> GlobalAttrLine(l.a)
      [] l.kind = "dim" -> DimLine(l.d.name, l.d.value)
      [] l.kind = "decl" -> DeclLine(l.data_type, l.name, l.dims)
      [] l.kind = "attr" -> AttrLine(l.owner, l.a)
      [] l.kind = "marker" -> l.word \o <<":", NL>>
      [] OTHER -> l.text \o <<NL>>

\* the text of a file
SourceText(lines) == Concat([i \in 1..Len(lines) |-> LineText(lines[i])])

\* the lines every file may have
Header == RawLine(W_netcdf \o <<" ", "t", " ", "{">>)
Closing == RawLine(<<"}">>)
Blank == RawLine(<<>>)
TimeDimension == DimensionLine(DimDecl(W_time, <<"2">>))
TimeVariable ==
    <<DeclarationLine(W_double, W_time, <<W_time>>),
      AttributeLine(W_time, Attr(W_units, W_s, TRUE)), Blank>>

\* the most lines that are drawn into one place of a file
MaxLines == 2

\* the lists of at most MaxLines members of a pool
Drawn(pool) ==
    {[i \in 1..Len(q) |-> pool[q[i]]] : q \in Arrangements(Len(pool), MaxLines)}

\* files with global attribute lines before the dimensions section, inside
\* it and after the variables
GlobalPool ==
    <<GlobalLine(Attr(W_title, <<"a">>, TRUE)), GlobalLine(Attr(W_title, <<"b">>, TRUE)),
      GlobalLine(Attr(W_long_name, W_coil, TRUE))>>
GlobalSources ==
    {<<Header>> \o before \o <<MarkerLine(W_dimensions), TimeDimension>> \o inside
       \o <<Blank, MarkerLine(W_variables)>> \o TimeVariable \o after \o <<Closing>> :
        before \in Drawn(GlobalPool),
        inside \in {<<>>, <<GlobalLine(Attr(W_title, <<"c">>, TRUE))>>},
        after \in {<<>>, <<GlobalLine(Attr(W_title, <<"d">>, TRUE))>>}}

\* files whose second variable has, in its block, attribute lines of its own
\* and lines led by another identifier: the name of the variable before it,
\* and a prefix of its own name
OwnerPool ==
    <<AttributeLine(W_coil_current, Attr(W_units, W_A, TRUE)),
      AttributeLine(W_coil_current, Attr(W_long_name, <<"1">>, FALSE)),
      AttributeLine(W_time, Attr(W_units, W_s, TRUE)),
      AttributeLine(W_time, Attr(W_long_name, <<"2">>, FALSE)),
      AttributeLine(W_coil, Attr(W_units, <<"m">>, TRUE))>>
OwnerSources ==
    {<<Header, MarkerLine(W_dimensions), TimeDimension, Blank, MarkerLine(W_variables)>>
       \o TimeVariable \o <<DeclarationLine(W_double, W_coil_current, <<W_time>>)>>
       \o block \o <<Blank, Closing>> :
        block \in Drawn(OwnerPool)}

\* declaration lines that do not match `<type> <name>[(dims)] ;`: an unclosed
\* parenthesis, no semicolon, no name
MalformedDecls ==
    {RawLine(<<" ", " ">> \o W_double \o <<" ">> \o W_coil \o <<"(">> \o W_time \o <<" ", ";">>),
     RawLine(<<" ", " ">> \o W_double \o <<" ">> \o W_coil \o <<"(">> \o W_time \o <<")">>),
     RawLine(<<" ", " ">> \o W_double \o <<" ", ";">>)}

\* files with or without their `dimensions:` and `variables:` lines, whose
\* variables section has well-formed and malformed blocks
BlockPool ==
    <<<<DeclarationLine(W_double, W_coil_current, <<W_time>>),
        AttributeLine(W_coil_current, Attr(W_units, W_A, TRUE)), Blank>>,
      <<DeclarationLine(W_int, W_coil_data, <<>>), Blank>>>>
MalformedPool ==
    {<<bad, AttributeLine(W_coil, Attr(W_units, <<"m">>, TRUE)), Blank>> : bad \in MalformedDecls}
MarkerSources ==
    {<<Header>> \o (IF d THEN <<MarkerLine(W_dimensions)>> ELSE <<>>)
       \o <<TimeDimension, Blank>> \o (IF v THEN <<MarkerLine(W_variables)>> ELSE <<>>)
       \o Concat(before) \o bad \o Concat(after) \o <<Closing>> :
        d \in BOOLEAN, v \in BOOLEAN,
        before \in {<<>>, <<TimeVariable>>}, bad \in MalformedPool \cup {<<>>},
        after \in Drawn(BlockPool)}

\* files with and without a data section, whose variables have "data:" in
\* an attribute line: in the name of the variable, or in a quoted value
DataPool ==
    <<<<DeclarationLine(W_double, W_coil_current, <<W_time>>),
        AttributeLine(W_coil_current, Attr(W_units, W_A, TRUE)), Blank>>,
      <<DeclarationLine(W_int, W_coil_data, <<>>),
        AttributeLine(W_coil_data, Attr(W_units, W_A, TRUE)), Blank>>,
      <<DeclarationLine(W_double, W_coil, <<W_time>>),
        AttributeLine(W_coil, Attr(W_long_name, W_data_x, TRUE)),
        AttributeLine(W_coil, Attr(W_units, W_A, TRUE)), Blank>>>>
DataSection ==
    <<MarkerLine(W_data), RawLine(<<" ", " ">> \o W_time \o <<" ", "=", " ", "0", ",", " ", "1", " ", ";">>),
      DeclarationLine(W_int, W_node, <<>>)>>
DataSources ==
    {<<Header, MarkerLine(W_dimensions), TimeDimension, Blank, MarkerLine(W_variables)>>
       \o TimeVariable \o Concat(blocks) \o section \o <<Closing>> :
        blocks \in Drawn(DataPool), section \in {<<>>, DataSection}}

\* files with comments, and with "//" inside quoted values of global and of
\* variable attributes
CommentLine == RawLine(<<" ", " ", "/", "/", " ">> \o W_coil \o <<" ", "=", " ", "1", " ", ";">>)
CommentSources ==
    {<<Header>> \o globals \o <<CommentLine, MarkerLine(W_dimensions), TimeDimension,
                                 CommentLine, Blank, MarkerLine(W_variables),
                                 DeclarationLine(W_double, W_time, <<W_time>>)>>
       \o attributes \o <<CommentLine, Blank, Closing>> :
        globals \in Drawn(<<GlobalLine(Attr(W_title, W_url, TRUE)),
                            GlobalLine(Attr(W_long_name, W_coil, TRUE))>>),
        attributes \in Drawn(<<AttributeLine(W_time, Attr(W_long_name, W_url, TRUE)),
                               AttributeLine(W_time, Attr(W_units, W_s, TRUE))>>)}

\* the files parse_cdl_file is called on
ParseSources ==
    GlobalSources \cup OwnerSources \cup MarkerSources \cup DataSources \cup CommentSources

\* where the files are
ParsePaths == {<<W_pf_active, W_coil_current>>}

\* the most calls made on one parser
MaxParses == 2

\* the files of a call that is not the first on its parser
LaterSources ==
    {<<Header, MarkerLine(W_dimensions), DimensionLine(DimDecl(W_coil, <<"1">>)), Blank,
       MarkerLine(W_variables), Closing>>,
     <<Header, GlobalLine(Attr(W_title, <<"b">>, TRUE)), Closing>>}

\* the dict parse_cdl_file returns holds the parser's own three mappings,
\* not copies of them (lines 62-67)
Aliased(unit, self) ==
    [unit EXCEPT !.global_attributes = self.global_attributes,
                 !.dimensions = self.dimensions,
                 !.variables = self.variables]

\* a caller parses a file with parser_obj, a CDLParser() it made before
ParseCall(cdl_path, lines) ==
    /\ pc = "idle"
    /\ Len(parse_calls) < MaxParses
    /\ \E self \in {IF parser_obj = Unbound THEN NewParser ELSE parser_obj} :
       \E unit \in {ParseCdlFile(self, cdl_path, SourceText(lines))} :
          /\ parser_obj' = [global_attributes |-> unit.global_attributes,
                            dimensions |-> unit.dimensions,
                            variables |-> unit.variables]
          /\ cdl_file' = cdl_path
          /\ cdl_data' = unit
          /\ parse_calls' =
                Append([i \in 1..Len(parse_calls) |->
                           [parse_calls[i] EXCEPT !.now = Aliased(@, parser_obj')]],
                       [lines |-> lines, returned |-> unit, now |-> unit])
    /\ UNCHANGED <<definitions, dirs, schemas, clock, budget, pc, args, cdl_files,
                   schema_id, schema, output_file, status, validator, build>>

NextParse ==
    \/ /\ parse_calls = <<>>
       /\ \E cdl_path \in ParsePaths, lines \in ParseSources : ParseCall(cdl_path, lines)
    \/ /\ parse_calls # <<>>
       /\ Len(parse_calls) < MaxParses
       /\ \E cdl_path \in ParsePaths, lines \in LaterSources : ParseCall(cdl_path, lines)

\* no converter runs; the caller has made no parser yet
InitParse ==
    /\ definitions = <<>>
    /\ dirs = {}
    /\ budget = 0
    /\ InitProcess
    /\ InitAttrs

SpecParse == InitParse /\ [][NextParse]_vars

(***************************************************************************)
(* StandardAttrs (validator.py).  A value is None, a str or, for a value   *)
(* of another type, an int.                                                *)
(***************************************************************************)
NoneValue == [kind |-> "None"]

\* str.islower(): no uppercase character and at least one cased character
IsLower(v) ==
    /\ \E i \in 1..Len(v) : v[i] \in Lower
    /\ \A i \in 1..Len(v) : v[i] \notin Upper

\* str.isalpha() of one character
IsAlpha(c) == c \in Lower \cup Upper

\* str.lower()
ToLower(v) ==
    [i \in 1..Len(v) |->
        IF v[i] \in Upper
        THEN CHOOSE c \in Lower :
                \E k \in 1..Len(UpperSeq) : UpperSeq[k] = v[i] /\ LowerSeq[k] = c
        ELSE v[i]]

\* validate_standard_name: "none" when it returns v, else the exception
ValidateStandardName(v) ==
    IF v.kind = "None" THEN "none"
    ELSE IF v.kind # "str" \/ Strip(v.text) = <<>> THEN "ValueError"
    ELSE IF ~(IsLower(v.text) /\ IsAlpha(v.text[1]) /\ ~Contains(v.text, <<" ">>))
         THEN "NameError"
         ELSE "none"

\* ALLOWED_SPECIAL_UNITS
W_none == <<"n", "o", "n", "e">>
W_undefined == <<"u", "n", "d", "e", "f", "i", "n", "e", "d">>
AllowedSpecialUnits == {<<"1">>, W_none, <<>>, W_undefined}

\* the unit registry: the texts that resolve, each with f"{Unit(v):~U}",
\* its short form.  K, m and m.s^-1 are the tests'; meter is m by its name
W_meter == <<"m", "e", "t", "e", "r">>
W_m_per_s == <<"m", ".", "s", "^", "-", "1">>
UnitRegistry ==
    {<<<<"K">>, <<"K">>>>, <<<<"m">>, <<"m">>>>, <<W_meter, <<"m">>>>,
     <<W_m_per_s, W_m_per_s>>}
RegistryUnits == {u[1] : u \in UnitRegistry}
PintUnit(v) == (CHOOSE u \in UnitRegistry : u[1] = v)[2]

\* a validate_units that resolves the unit inside the try
ValidateUnits_lookup_in_try(v) ==
    IF v.kind = "None" THEN "none"
    ELSE IF v.kind # "str" THEN "ValueError"
    ELSE IF ToLower(v.text) \in AllowedSpecialUnits THEN "none"
    ELSE IF v.text \notin RegistryUnits THEN "ValueError"
    ELSE IF Range(Split(v.text, ".")) = Range(Split(PintUnit(v.text), "."))
         THEN "none"
         ELSE "ValueError"

\* validate_units: unit_registry.Unit(v) is called outside the try, so an
\* unknown unit leaves as pint's UndefinedUnitError; the assert on the two
\* sets of tokens is inside it and becomes a ValueError
ValidateUnits(v) ==
    IF v.kind = "None" THEN "none"
    ELSE IF v.kind # "str" THEN "ValueError"
    ELSE IF ToLower(v.text) \in AllowedSpecialUnits THEN "none"
    ELSE IF v.text \notin RegistryUnits THEN "UndefinedUnitError"
    ELSE IF Range(Split(v.text, ".")) = Range(Split(PintUnit(v.text), "."))
         THEN "none"
         ELSE "ValueError"

\* a model validator that leaves units optional
ValidateFusionConvention_units_optional(standard_name, units) == "none"

\* validate_fusion_convention
ValidateFusionConvention(standard_name, units) ==
    IF standard_name.kind # "None" /\ units.kind = "None" THEN "ValueError" ELSE "none"

\* the check of a field against its annotation `str | None`, which comes
\* before the field's validator
FieldType(v) == IF v.kind \in {"None", "str"} THEN "none" ELSE "ValueError"

\* one field: its annotation, then its validator
FieldOutcome(v, Validate(_)) ==
    IF FieldType(v) # "none" THEN FieldType(v) ELSE Validate(v)

\* StandardAttrs(standard_name=..., units=...): the fields in their order,
\* then the model validator.  pydantic gathers every ValueError into one
\* ValidationError; any other exception leaves the call at once
Construct(standard_name, units) ==
    With(FieldOutcome(standard_name, ValidateStandardName), LAMBDA n :
    With(FieldOutcome(units, ValidateUnits), LAMBDA u :
         IF n \notin {"none", "ValueError"} THEN n
         ELSE IF u \notin {"none", "ValueError"} THEN u
         ELSE IF n = "ValueError" \/ u = "ValueError" THEN "ValidationError"
         ELSE IF ValidateFusionConvention(standard_name, units) = "ValueError"
              THEN "ValidationError"
              ELSE "none"))

\* the message of a field's ValueError: of its annotation, else of its
\* validator
StandardNameMessage(v) ==
    IF FieldType(v) # "none" THEN "Input should be a valid string"
    ELSE "standard_name must be a non-empty string"
UnitsMessage(v) ==
    IF FieldType(v) # "none" THEN "Input should be a valid string"
    ELSE "units must be a valid IMAS Standard Names unit"
FusionMessage == "units are required when standard_name is specified (Fusion convention)"

\* the messages of the ValidationError that Construct ends with
LineErrors(standard_name, units) ==
    With((IF FieldOutcome(standard_name, ValidateStandardName) = "ValueError"
          THEN <<StandardNameMessage(standard_name)>> ELSE <<>>)
         \o (IF FieldOutcome(units, ValidateUnits) = "ValueError"
             THEN <<UnitsMessage(units)>> ELSE <<>>), LAMBDA fields :
         IF fields # <<>> THEN fields ELSE <<FusionMessage>>)

\* what a field validator hands back: `return v`
Validated(v) == v

\* the instance a successful Construct makes
Instance(standard_name, units) ==
    [standard_name |-> Validated(standard_name), units |-> Validated(units)]

\* a call and how it ended
Call(fn, arg) == [fn |-> fn, arg |-> arg]
Outcome(exc, msgs, value) == [raised |-> exc, errors |-> msgs, returned |-> value]

\* StandardAttrs(...) as a call
ConstructOutcome(standard_name, units) ==
    With(Construct(standard_name, units), LAMBDA exc :
         Outcome(exc,
                 IF exc = "ValidationError" THEN LineErrors(standard_name, units) ELSE <<>>,
                 IF exc = "none" THEN Instance(standard_name, units) ELSE Unbound))

\* the longest standard_name that is tried
MaxNameLen == 3

\* the characters standard names are made of, and the names
NameChars == {"a", "B", "1", "_", " ", "\t"}
RECURSIVE Texts(_, _)
Texts(C, n) ==
    IF n = 0 THEN {<<>>}
    ELSE Texts(C, n - 1)
         \cup {Append(t, c) : t \in {x \in Texts(C, n - 1) : Len(x) = n - 1}, c \in C}
StandardNames == {NoneValue, IntValue(1)} \cup {StrValue(t) : t \in Texts(NameChars, MaxNameLen)}
UnitsValues ==
    {NoneValue, IntValue(1), StrValue(<<>>), StrValue(<<"N", "o", "n", "e">>),
     StrValue(<<"K">>), StrValue(<<"x">>), StrValue(W_meter), StrValue(W_m_per_s)}

(***************************************************************************)
(* CoordinateModel                                                         *)
(***************************************************************************)
W_coords == <<"c", "o", "o", "r", "d", "s">>
W_dims == <<"d", "i", "m", "s">>
W_attrs == <<"a", "t", "t", "r", "s">>

\* Python values beside the scalars: a list, a tuple, a dict (as its items)
ListValue(items) == [kind |-> "list", items |-> items]
TupleValue(items) == [kind |-> "tuple", items |-> items]
DictValue(items) == [kind |-> "dict", items |-> items]

\* what the annotation of a field refuses
Invalid == [kind |-> "invalid"]

\* how a field ended: no exception, a ValueError with its messages, or
\* another exception; and the value the model keeps
FieldResult(exc, msgs, value) == [exc |-> exc, msgs |-> msgs, value |-> value]

\* a model constructed inside a field: pydantic's ValidationError is a
\* ValueError, and keeps its messages
AsField(o) ==
    FieldResult(IF o.raised = "ValidationError" THEN "ValueError" ELSE o.raised,
                o.errors, o.returned)

\* pydantic over the fields in their order: an exception that is no
\* ValueError leaves at once, ValueErrors are gathered into one
\* ValidationError
Gather(results, instance) ==
    With(SelectSeq(results, LAMBDA r : r.exc \notin {"none", "ValueError"}), LAMBDA thrown :
         IF thrown # <<>> THEN Outcome(thrown[1].exc, <<>>, Unbound)
         ELSE IF \E i \in 1..Len(results) : results[i].exc = "ValueError"
         THEN Outcome("ValidationError", Concat([i \in 1..Len(results) |-> results[i].msgs]),
                      Unbound)
         ELSE Outcome("none", <<>>, instance))

\* List[Union[str, int, float]]: outside strict mode a tuple is taken too
IsValueList(v) ==
    /\ v.kind \in {"list", "tuple"}
    /\ \A i \in 1..Len(v.items) : v.items[i].kind \in {"str", "int", "float"}

\* Union[str, Tuple[str, ...]]
IsDimNames(v) ==
    \/ v.kind = "str"
    \/ /\ v.kind \in {"list", "tuple"}
       /\ \A i \in 1..Len(v.items) : v.items[i].kind = "str"

\* Tuple[Union[str, Tuple[str, ...]], List[...], Dict[str, Any]]
IsFullFormat(v) ==
    /\ v.kind \in {"list", "tuple"}
    /\ Len(v.items) = 3
    /\ IsDimNames(v.items[1])
    /\ IsValueList(v.items[2])
    /\ v.items[3].kind = "dict"

\* one value of CoordinateDict: the member of the Union that takes it, and
\* the value as that member
CoordinateType(v) ==
    IF IsValueList(v) THEN ListValue(v.items)
    ELSE IF IsFullFormat(v)
    THEN TupleValue(<<IF v.items[1].kind = "str" THEN v.items[1]
                       ELSE TupleValue(v.items[1].items),
                      ListValue(v.items[2].items), v.items[3]>>)
    ELSE Invalid

\* the messages of a value no member takes, one for each member (those of the
\* items of a sequence are cut down to the member's)
CoordinateTypeMessages(v) ==
    IF v.kind \in {"list", "tuple"}
    THEN <<"coords: no list of str, int or float", "coords: no tuple of dims, data and attrs">>
    ELSE <<"Input should be a valid list", "Input should be a valid tuple">>

\* attrs.get(key)
AttrsGet(attrs_dict, key) ==
    IF DictHas(attrs_dict.items, key) THEN DictGet(attrs_dict.items, key) ELSE NoneValue

\* the attrs check of a model that forgets the units
CheckAttrs_name_only(attrs_dict) ==
    ConstructOutcome(AttrsGet(attrs_dict, W_standard_name), NoneValue)

\* StandardAttrs(standard_name=attrs.get("standard_name"),
\*               units=attrs.get("units"))
CheckAttrs(attrs_dict) ==
    ConstructOutcome(AttrsGet(attrs_dict, W_standard_name), AttrsGet(attrs_dict, W_units))

\* validate_coordinates, one pass of its loop
ValidateCoordinate(coord_def) ==
    IF coord_def.kind \in {"list", "tuple"}
          /\ coord_def.kind = "tuple" /\ Len(coord_def.items) = 3
          /\ coord_def.items[3].kind = "dict"
    THEN AsField(CheckAttrs(coord_def.items[3]))
    ELSE IF coord_def.kind = "list"
    THEN FieldResult("none", <<>>, coord_def)
    ELSE FieldResult("ValueError", <<"Invalid coordinate definition">>, Unbound)

\* validate_coordinates: the loop ends at the first entry that raises
ValidateCoordinates(v) ==
    With(SelectSeq(v, LAMBDA e : ValidateCoordinate(e[2]).exc # "none"), LAMBDA failed :
         IF failed = <<>> THEN FieldResult("none", <<>>, v)
         ELSE With(ValidateCoordinate(failed[1][2]), LAMBDA r :
                   FieldResult(r.exc, r.msgs, Unbound)))

\* the field coords: its annotation, then validate_coordinates
CoordsField(v) ==
    IF v.kind # "dict"
    THEN FieldResult("ValueError", <<"Input should be a valid dictionary">>, Unbound)
    ELSE With([i \in 1..Len(v.items) |-> <<v.items[i][1], CoordinateType(v.items[i][2])>>],
              LAMBDA typed :
              IF \E i \in 1..Len(typed) : typed[i][2] = Invalid
              THEN FieldResult("ValueError",
                               Concat([i \in 1..Len(typed) |->
                                          IF typed[i][2] = Invalid
                                          THEN CoordinateTypeMessages(v.items[i][2])
                                          ELSE <<>>]),
                               Unbound)
              ELSE ValidateCoordinates(typed))

\* CoordinateModel(**kwargs): coords, or its default_factory
CoordinateModelOutcome(kwargs) ==
    With(IF DictHas(kwargs, W_coords) THEN CoordsField(DictGet(kwargs, W_coords))
         ELSE FieldResult("none", <<>>, <<>>), LAMBDA c :
         Gather(<<c>>, [coords |-> c.value]))

(***************************************************************************)
(* DataArrayModel                                                          *)
(***************************************************************************)
Required == FieldResult("ValueError", <<"Field required">>, Unbound)

\* a text with something but white space in it: `dim.strip()` is true
NonBlank(text) == Strip(text) # <<>>

\* dims: Tuple[str, ...], then validate_dims
DimsField(v) ==
    IF ~(v.kind \in {"list", "tuple"}) THEN
        FieldResult("ValueError", <<"Input should be a valid tuple">>, Unbound)
    ELSE IF \E i \in 1..Len(v.items) : v.items[i].kind # "str" THEN
        FieldResult("ValueError", <<"Input should be a valid string">>, Unbound)
    ELSE IF \E i \in 1..Len(v.items) : ~NonBlank(v.items[i].text) THEN
        FieldResult("ValueError", <<"All dimension names must be non-empty strings">>, Unbound)
    ELSE FieldResult("none", <<>>, TupleValue(v.items))

\* coords: CoordinateModel, given as the mapping of its fields
CoordinateModelField(v) ==
    IF v.kind # "dict" THEN
        FieldResult("ValueError",
                    <<"Input should be a valid dictionary or instance of CoordinateModel">>,
                    Unbound)
    ELSE AsField(CoordinateModelOutcome(v.items))

\* attrs: Dict[str, Any], then validate_standard_name, which constructs a
\* StandardAttrs and returns attrs
AttrsField(v) ==
    IF v.kind # "dict" THEN
        FieldResult("ValueError", <<"Input should be a valid dictionary">>, Unbound)
    ELSE With(AsField(CheckAttrs(v)), LAMBDA r :
              IF r.exc = "none" THEN FieldResult("none", <<>>, v) ELSE r)

\* data: List[Any]
DataField(v) ==
    IF v.kind \in {"list", "tuple"} THEN FieldResult("none", <<>>, ListValue(v.items))
    ELSE FieldResult("ValueError", <<"Input should be a valid list">>, Unbound)

\* DataArrayModel(**kwargs): dims, coords, attrs, data
DataArrayModelOutcome(kwargs) ==
    With(<<IF DictHas(kwargs, W_dims) THEN DimsField(DictGet(kwargs, W_dims)) ELSE Required,
           IF DictHas(kwargs, W_coords) THEN CoordinateModelField(DictGet(kwargs, W_coords))
           ELSE FieldResult("none", <<>>, [coords |-> <<>>]),
           IF DictHas(kwargs, W_attrs) THEN AttrsField(DictGet(kwargs, W_attrs)) ELSE Required,
           IF DictHas(kwargs, W_data) THEN DataField(DictGet(kwargs, W_data)) ELSE Required>>,
         LAMBDA fields :
         Gather(fields, [dims |-> fields[1].value, coords |-> fields[2].value,
                         attrs |-> fields[3].value, data |-> fields[4].value]))

(***************************************************************************)
(* DatasetModel and validate_xarray_object                                 *)
(***************************************************************************)
W_data_vars == <<"d", "a", "t", "a", "_", "v", "a", "r", "s">>
W_name == <<"n", "a", "m", "e">>

\* dims: Dict[str, int], then validate_dims
SizesField(v) ==
    IF v.kind # "dict" THEN
        FieldResult("ValueError", <<"Input should be a valid dictionary">>, Unbound)
    ELSE IF \E i \in 1..Len(v.items) : v.items[i][2].kind # "int" THEN
        FieldResult("ValueError", <<"Input should be a valid integer">>, Unbound)
    ELSE IF \E i \in 1..Len(v.items) : ~NonBlank(v.items[i][1]) THEN
        FieldResult("ValueError", <<"Dimension names must be non-empty strings">>, Unbound)
    ELSE IF \E i \in 1..Len(v.items) : v.items[i][2].value < 0 THEN
        FieldResult("ValueError", <<"Dimension size must be a non-negative integer">>, Unbound)
    ELSE FieldResult("none", <<>>, v)

\* data_vars: Dict[str, DataArrayModel], each given as the mapping of its
\* fields
DataVarsField(v) ==
    IF v.kind # "dict" THEN
        FieldResult("ValueError", <<"Input should be a valid dictionary">>, Unbound)
    ELSE AsField(Gather([i \in 1..Len(v.items) |->
                            IF v.items[i][2].kind # "dict"
                            THEN FieldResult("ValueError",
                                             <<"Input should be a valid dictionary or instance of DataArrayModel">>,
                                             Unbound)
                            ELSE AsField(DataArrayModelOutcome(v.items[i][2].items))],
                        v))

\* attrs: Dict[str, Any], with no validator
AnyDictField(v) ==
    IF v.kind # "dict" THEN
        FieldResult("ValueError", <<"Input should be a valid dictionary">>, Unbound)
    ELSE FieldResult("none", <<>>, v)

\* DatasetModel(**kwargs): dims, coords, data_vars, attrs
DatasetModelOutcome(kwargs) ==
    With(<<IF DictHas(kwargs, W_dims) THEN SizesField(DictGet(kwargs, W_dims)) ELSE Required,
           IF DictHas(kwargs, W_coords) THEN CoordinateModelField(DictGet(kwargs, W_coords))
           ELSE FieldResult("none", <<>>, [coords |-> <<>>]),
           IF DictHas(kwargs, W_data_vars) THEN DataVarsField(DictGet(kwargs, W_data_vars))
           ELSE Required,
           IF DictHas(kwargs, W_attrs) THEN AnyDictField(DictGet(kwargs, W_attrs))
           ELSE FieldResult("none", <<>>, DictValue(<<>>))>>,
         LAMBDA fields :
         Gather(fields, [dims |-> fields[1].value, coords |-> fields[2].value,
                         data_vars |-> fields[3].value, attrs |-> fields[4].value]))

\* xarray's Variable.to_dict(): dims, attrs and data of one array
VariableToDict(variable) ==
    <<<<W_dims, TupleValue([i \in 1..Len(variable.dims) |-> StrValue(variable.dims[i])])>>,
      <<W_attrs, DictValue(variable.attrs)>>,
      <<W_data, variable.data>>>>

\* the arrays of a mapping, each as its dict
VariablesToDict(variables) ==
    DictValue([i \in 1..Len(variables) |->
                  <<variables[i][1], DictValue(VariableToDict(variables[i][2]))>>])

\* obj.to_dict() of xarray: a DataArray gives its dims, attrs and data, its
\* coords and its name; a Dataset its coords, attrs, dims and data_vars
ToDict(obj) ==
    IF obj.type = "DataArray"
    THEN VariableToDict(obj)
         \o <<<<W_coords, VariablesToDict(obj.coords)>>, <<W_name, obj.name>>>>
    ELSE <<<<W_coords, VariablesToDict(obj.coords)>>,
           <<W_attrs, DictValue(obj.attrs)>>,
           <<W_dims, DictValue([i \in 1..Len(obj.dims) |->
                                   <<obj.dims[i][1], IntValue(obj.dims[i][2])>>])>>,
           <<W_data_vars, VariablesToDict(obj.data_vars)>>>>

\* an except clause that takes pydantic's ValidationError only
Caught_validation_only(exc) == exc = "ValidationError"

\* `except Exception`: TypeError, NameError, pint's UndefinedUnitError and
\* pydantic's ValidationError are all Exceptions
Caught(exc) == exc \in {"TypeError", "NameError", "UndefinedUnitError", "ValidationError"}

\* _XARRAY_MODEL_MAP.get(type(obj)), model_class(**obj.to_dict())
XarrayModelOutcome(obj) ==
    IF obj.type = "DataArray" THEN DataArrayModelOutcome(ToDict(obj))
    ELSE IF obj.type = "Dataset" THEN DatasetModelOutcome(ToDict(obj))
    ELSE Outcome("TypeError", <<"Unsupported object type">>, Unbound)

\* validate_xarray_object(obj): True, or False with the exception printed
ValidateXarrayObjectOutcome(obj) ==
    With(XarrayModelOutcome(obj), LAMBDA o :
         IF o.raised = "none" THEN Outcome("none", <<>>, TRUE)
         ELSE IF Caught(o.raised) THEN Outcome("none", <<o.raised>> \o o.errors, FALSE)
         ELSE Outcome(o.raised, o.errors, Unbound))

\* a caller constructs a StandardAttrs; a behaviour follows one call
StandardAttrs(standard_name, units) ==
    /\ call = Unbound
    /\ attrs = Unbound
    /\ attrs' = [standard_name |-> standard_name, units |-> units]
    /\ call' = Call("StandardAttrs", attrs')
    /\ \E o \in {ConstructOutcome(standard_name, units)} :
          /\ raised' = o.raised
          /\ errors' = o.errors
          /\ returned' = o.returned
    /\ UNCHANGED converter

\* the attrs mappings: standard_name and units, each absent or any value
AttrsMappings ==
    {DictValue(n \o u) :
        n \in {<<>>} \cup {<<<<W_standard_name, v>>>> :
                              v \in {IntValue(1)}
                                     \cup {StrValue(t) : t \in Texts(NameChars, MaxNameLen - 1)}},
        u \in {<<>>} \cup {<<<<W_units, v>>>> : v \in UnitsValues}}

\* a few of them: without a name, accepted, without units, ill-named, of an
\* unknown unit
SomeAttrs ==
    {DictValue(<<>>),
     DictValue(<<<<W_standard_name, StrValue(<<"a">>)>>, <<W_units, StrValue(<<"K">>)>>>>),
     DictValue(<<<<W_standard_name, StrValue(<<"a">>)>>>>),
     DictValue(<<<<W_standard_name, StrValue(<<"B">>)>>, <<W_units, StrValue(<<"K">>)>>>>),
     DictValue(<<<<W_units, StrValue(<<"x">>)>>>>)}

\* the values of a coordinate, and coordinates of the full format
SomeValues == ListValue(<<IntValue(1), IntValue(2)>>)
FullFormat(attrs_dict) == TupleValue(<<StrValue(<<"x">>), SomeValues, attrs_dict>>)

\* coordinate definitions of every other shape: lists, a string, a number,
\* tuples of no, two, three and four elements, a list of three
CoordinateShapes ==
    {SomeValues, ListValue(<<>>), StrValue(<<"a">>), IntValue(1),
     TupleValue(<<>>),
     TupleValue(<<StrValue(<<"x">>), SomeValues>>),
     TupleValue(<<StrValue(<<"a">>), StrValue(<<"B">>)>>),
     TupleValue(<<StrValue(<<"x">>), IntValue(1), IntValue(2)>>),
     TupleValue(<<StrValue(<<"x">>), SomeValues, StrValue(<<"a">>)>>),
     TupleValue(<<StrValue(<<"x">>), SomeValues, DictValue(<<>>), DictValue(<<>>)>>),
     TupleValue(<<TupleValue(<<StrValue(<<"x">>)>>), SomeValues, DictValue(<<>>)>>),
     ListValue(<<StrValue(<<"x">>), SomeValues, DictValue(<<>>)>>)}

\* the most coordinates of a mapping that is tried
MaxCoords == 2

\* the coords mappings: one coordinate of any definition, or up to MaxCoords
\* of a few
RECURSIVE CoordinateLists(_)
CoordinateLists(n) ==
    IF n = 0 THEN {<<>>}
    ELSE CoordinateLists(n - 1)
         \cup {Append(t, <<[j \in 1..n |-> "x"], e>>) :
                  t \in {x \in CoordinateLists(n - 1) : Len(x) = n - 1},
                  e \in CoordinateShapes \cup {FullFormat(a) : a \in SomeAttrs}}
CoordsMappings ==
    {DictValue(c) : c \in CoordinateLists(MaxCoords)}
    \cup {DictValue(<<<<<<"x">>, FullFormat(a)>>>>) : a \in AttrsMappings}

\* the arguments of CoordinateModel(...)
CoordinateKwargs ==
    {<<>>, <<<<W_coords, StrValue(<<"a">>)>>>>}
    \cup {<<<<W_coords, m>>>> : m \in CoordsMappings}

\* a caller constructs a CoordinateModel
CoordinateModel(kwargs) ==
    /\ call = Unbound
    /\ call' = Call("CoordinateModel", kwargs)
    /\ \E o \in {CoordinateModelOutcome(kwargs)} :
          /\ raised' = o.raised
          /\ errors' = o.errors
          /\ returned' = o.returned
    /\ UNCHANGED <<converter, attrs>>

\* the arguments of DataArrayModel(...): dims that are names or hold a blank
\* one, coords absent or with one full-format coordinate, any attrs or none,
\* data that is a list or a number
DataArrayKwargs ==
    {d \o c \o a \o v :
        d \in {<<<<W_dims, TupleValue(<<StrValue(t)>>)>>>> : t \in {W_time, <<" ">>}},
        c \in {<<>>} \cup {<<<<W_coords, DictValue(<<<<W_coords,
                                DictValue(<<<<<<"x">>, FullFormat(m)>>>>)>>>>)>>>> :
                                m \in {DictValue(<<>>),
                                       DictValue(<<<<W_standard_name, StrValue(<<"B">>)>>>>)}},
        a \in {<<>>} \cup {<<<<W_attrs, m>>>> : m \in AttrsMappings},
        v \in {<<<<W_data, x>>>> : x \in {SomeValues, IntValue(1)}}}

\* a caller constructs a DataArrayModel
DataArrayModel(kwargs) ==
    /\ call = Unbound
    /\ call' = Call("DataArrayModel", kwargs)
    /\ \E o \in {DataArrayModelOutcome(kwargs)} :
          /\ raised' = o.raised
          /\ errors' = o.errors
          /\ returned' = o.returned
    /\ UNCHANGED <<converter, attrs>>

\* arrays: of one dimension with two values, or of none with a number
Array(attrs_items, with_dims) ==
    [dims |-> IF with_dims THEN <<W_time>> ELSE <<>>,
     attrs |-> attrs_items,
     data |-> IF with_dims THEN SomeValues ELSE IntValue(1)]

\* the coordinates of an object: none, or the coordinate time with some attrs
XarrayCoords ==
    {<<>>} \cup {<<<<W_time, Array(a.items, TRUE)>>>> : a \in SomeAttrs}

\* the objects handed to validate_xarray_object: DataArrays, Datasets of no
\* or one data variable, and a str
XarrayObjects ==
    {Array(a.items, d) @@ [type |-> "DataArray", coords |-> c, name |-> NoneValue] :
        a \in SomeAttrs \cup {DictValue(<<<<W_units, StrValue(W_meter)>>>>)},
        d \in BOOLEAN, c \in XarrayCoords}
    \cup {[type |-> "Dataset", dims |-> <<<<W_time, 2>>>>, coords |-> c, attrs |-> a.items,
           data_vars |-> v] :
             c \in XarrayCoords,
             a \in {DictValue(<<>>), DictValue(<<<<W_standard_name, StrValue(<<"B">>)>>>>)},
             v \in {<<>>} \cup {<<<<<<"a">>, Array(m.items, d)>>>> :
                                  m \in SomeAttrs, d \in BOOLEAN}}
    \cup {[type |-> "str"]}

\* a caller validates an object
ValidateXarrayObject(obj) ==
    /\ call = Unbound
    /\ call' = Call("validate_xarray_object", obj)
    /\ \E o \in {ValidateXarrayObjectOutcome(obj)} :
          /\ raised' = o.raised
          /\ errors' = o.errors
          /\ returned' = o.returned
    /\ UNCHANGED <<converter, attrs>>

\* one call is followed: nothing is tried once it has been made
NextAttrs ==
    /\ call = Unbound
    /\ \/ \E obj \in XarrayObjects : ValidateXarrayObject(obj)
       \/ \E kwargs \in DataArrayKwargs : DataArrayModel(kwargs)
       \/ \E standard_name \in StandardNames, units \in UnitsValues :
             StandardAttrs(standard_name, units)
       \/ \E kwargs \in CoordinateKwargs : CoordinateModel(kwargs)

\* the converter does not run
InitIdle ==
    /\ definitions = <<>>
    /\ dirs = {}
    /\ budget = 0
    /\ InitProcess
    /\ InitAttrs

SpecAttrs == InitIdle /\ [][NextAttrs]_vars

(***************************************************************************)
(* Properties of the converter                                             *)
(***************************************************************************)
\* the last iteration of the loop parsed cdl_file and generated schema
Converted == status \in {"generated", "skipped"}

\* the sections of the generated document
DimensionsSection == schema.properties.dimensions
VariablesSection == schema.properties.variables

\* C1: converting the minimal CDL (dimensions time = UNLIMITED and coil = 1,
\* variables time and coil_current with units) yields dimensions.properties
\* with both time and coil, each an integer with minimum 1, and
\* variables.properties with both time and coil_current, both of them in the
\* variables section's required
C1_MinimalCdl ==
    (Converted /\ definitions[cdl_file].cdl = MinimalCdl) =>
        /\ \A n \in {W_time, W_coil} :
              /\ DictHas(DimensionsSection.properties, n)
              /\ DictGet(DimensionsSection.properties, n).type = "integer"
              /\ DictGet(DimensionsSection.properties, n).minimum = 1
        /\ \A n \in {W_time, W_coil_current} :
              /\ DictHas(VariablesSection.properties, n)
              /\ n \in Range(VariablesSection.required)

\* C2: for a file that declares N dimensions and M variables the document's
\* dimensions.properties has exactly N keys and its variables.properties
\* exactly M keys
C2_KeyCounts ==
    Converted =>
        /\ Len(DimensionsSection.properties) = Len(definitions[cdl_file].cdl.dims)
        /\ Len(VariablesSection.properties) = Len(definitions[cdl_file].cdl.vars)

\* two documents that differ at most in x-source.generated
SameButGenerated(a, b) ==
    [a EXCEPT !.x_source.generated = 0] = [b EXCEPT !.x_source.generated = 0]

\* C3: a document generated from a file equals, in every field but
\* x-source.generated, every document an earlier conversion of the same file
\* (same source path, schema id and base URL) has written
C3_Idempotent ==
    Converted =>
        \A o \in DOMAIN schemas :
            schemas[o].x_source.file = cdl_file => SameButGenerated(schemas[o], schema)

\* a file is converted again, at another time, while the output of its earlier
\* conversion is on disk
C3_Witness ==
    /\ status = "skipped"
    /\ schemas[output_file].x_source.file = cdl_file
    /\ schemas[output_file].x_source.generated # schema.x_source.generated

\* C4: every dimension of the parsed unit is an integer property of the
\* dimensions section and is listed in its required; the minimum is 3 when the
\* name ends in _node and 1 otherwise, whatever the parsed size
C4_Dimensions ==
    Converted =>
        /\ Len(DimensionsSection.properties) = Len(cdl_data.dimensions)
        /\ \A i \in 1..Len(cdl_data.dimensions) :
              \E n \in {cdl_data.dimensions[i][1]} :
                 /\ DictHas(DimensionsSection.properties, n)
                 /\ DictGet(DimensionsSection.properties, n).type = "integer"
                 /\ n \in Range(DimensionsSection.required)
                 /\ DictGet(DimensionsSection.properties, n).minimum
                       = IF EndsWith(n, W_node) THEN 3 ELSE 1

\* a unit with polygon_node of size null and foo_element of size 12
C4_Witness ==
    /\ Converted
    /\ DictHas(cdl_data.dimensions, W_polygon_node)
    /\ DictGet(cdl_data.dimensions, W_polygon_node).size = <<>>
    /\ DictGet(DimensionsSection.properties, W_polygon_node).minimum = 3
    /\ DictHas(cdl_data.dimensions, W_foo_element)
    /\ DictGet(cdl_data.dimensions, W_foo_element).size = <<12>>
    /\ DictGet(DimensionsSection.properties, W_foo_element).minimum = 1

\* C5: a variable is listed in the variables section's required exactly when
\* it carries a geometry_type attribute or a units attribute, whatever the
\* value, or its name contains "geometry"
C5_Required ==
    Converted =>
        \A i \in 1..Len(cdl_data.variables) :
            (cdl_data.variables[i][1] \in Range(VariablesSection.required))
            <=> \/ DictHas(cdl_data.variables[i][2].attributes, W_geometry_type)
                \/ DictHas(cdl_data.variables[i][2].attributes, W_units)
                \/ Contains(cdl_data.variables[i][1], W_geometry)

\* the required list of a per-variable schema, empty when the key is absent
RequiredOf(var_schema) ==
    IF "required" \in DOMAIN var_schema THEN Range(var_schema.required) ELSE {}

\* C6: a per-variable schema requires dimensions iff the variable has declared
\* dimensions, units iff it has a units attribute, and geometry_type,
\* node_coordinates and node_count, all three, iff it has a geometry_type
\* attribute, whose property then has the enum polygon, line, point
C6_VariableRequired ==
    Converted =>
        \A i \in 1..Len(cdl_data.variables) :
            \E v \in {cdl_data.variables[i][2]},
               vs \in {DictGet(VariablesSection.properties, cdl_data.variables[i][1])} :
               /\ ("dimensions" \in RequiredOf(vs)) <=> (v.dimensions # <<>>)
               /\ ("units" \in RequiredOf(vs)) <=> DictHas(v.attributes, W_units)
               /\ \A k \in {"geometry_type", "node_coordinates", "node_count"} :
                     (k \in RequiredOf(vs)) <=> DictHas(v.attributes, W_geometry_type)
               /\ DictHas(v.attributes, W_geometry_type) =>
                     /\ DictHas(vs.properties, "geometry_type")
                     /\ Range(DictGet(vs.properties, "geometry_type").enum)
                           = {"polygon", "line", "point"}

\* a geometry container without dimensions beside a variable with dimensions
\* and units
C6_Witness ==
    /\ Converted
    /\ Len(cdl_data.variables) = 2
    /\ DictHas(cdl_data.variables, W_outline_geometry)
    /\ DictGet(cdl_data.variables, W_outline_geometry).dimensions = <<>>
    /\ RequiredOf(DictGet(VariablesSection.properties, W_outline_geometry))
          = {"geometry_type", "node_coordinates", "node_count"}
    /\ DictHas(cdl_data.variables, W_coil_current)
    /\ RequiredOf(DictGet(VariablesSection.properties, W_coil_current))
          = {"dimensions", "units"}

\* additionalProperties is true at the top level, in the variables section, in
\* every per-variable schema and in the global-attributes section
OpenOutsideDimensions ==
    /\ schema.additionalProperties = TRUE
    /\ VariablesSection.additionalProperties = TRUE
    /\ \A i \in 1..Len(VariablesSection.properties) :
          VariablesSection.properties[i][2].additionalProperties = TRUE
    /\ schema.properties.global_attributes.additionalProperties = TRUE

\* C7, as stated: additionalProperties is true throughout the document, the
\* dimensions section included
C7_OpenThroughout ==
    Converted => (OpenOutsideDimensions /\ DimensionsSection.additionalProperties = TRUE)

\* C7, amended: additionalProperties is true at the top level, in the
\* variables section, in every per-variable schema and in the
\* global-attributes section, and false in the dimensions section
C7_OpenButDimensions ==
    Converted => (OpenOutsideDimensions /\ DimensionsSection.additionalProperties = FALSE)

\* a document with dimensions and with per-variable schemas
C7_Witness ==
    /\ Converted
    /\ Len(DimensionsSection.properties) = 2
    /\ Len(VariablesSection.properties) = 2
    /\ DimensionsSection.additionalProperties = FALSE

\* the prefixes and their labels
C8_Labels ==
    {<<W_pf_p, W_pf_active>>, <<W_tf_p, W_tf_active>>, <<W_plasma_p, W_plasma>>,
     <<W_vessel_p, W_vessel>>, <<W_diag_p, W_diagnostics>>, <<W_eq_p, W_equilibrium>>}
Recognized(name) == \E l \in C8_Labels : StartsWith(name, l[1])

\* C8: the domain is the label of the first variable name, in the order of the
\* mapping, that starts with one of the prefixes, whatever follows it, and
\* base when no name does
C8_FirstMatch ==
    Converted =>
        \/ /\ \A i \in 1..Len(cdl_data.variables) : ~Recognized(cdl_data.variables[i][1])
           /\ output_file.domain = W_base
        \/ \E i \in 1..Len(cdl_data.variables) :
              /\ \A j \in 1..(i - 1) : ~Recognized(cdl_data.variables[j][1])
              /\ \E l \in C8_Labels :
                    /\ StartsWith(cdl_data.variables[i][1], l[1])
                    /\ output_file.domain = l[2]

\* diag_coil_current before tf_coil_current: the first name decides, not the
\* first prefix
C8_Witness ==
    /\ Converted
    /\ DictKeys(cdl_data.variables)
          = <<W_diag_p \o W_coil_current, W_tf_p \o W_coil_current>>
    /\ output_file.domain = W_diagnostics

\* C9: a written document's $id is <base URL>/<domain>/<schema id> and its file
\* is <domain>/<schema id> below the output root, with the same domain and the
\* same schema id: the input's stem with "_" replaced by "-", then
\* ".schema.json"
C9_RoutedAsEmbedded ==
    status = "generated" =>
        /\ output_file \in DOMAIN schemas
        /\ output_file.name
              = [i \in 1..Len(cdl_file[2]) |->
                    IF cdl_file[2][i] = "_" THEN "-" ELSE cdl_file[2][i]]
                \o <<".", "s", "c", "h", "e", "m", "a", ".", "j", "s", "o", "n">>
        /\ schemas[output_file].id
              = args.base_url \o <<"/">> \o output_file.domain
                \o <<"/">> \o output_file.name

\* pf_active/coil_current.cdl is written to pf_active/coil-current.schema.json
C9_Witness ==
    /\ status = "generated"
    /\ cdl_file = <<W_pf_active, W_coil_current>>
    /\ output_file = [domain |-> W_pf_active, name |-> W_coil_current_dash \o SchemaSuffix]

\* every name an object schema requires is one of its properties
RequiredWithin(section) ==
    "required" \in DOMAIN section =>
       Range(section.required) \subseteq DictKeySet(section.properties)

\* C27: in the dimensions section, the variables section and each
\* per-variable schema of a generated document, every name listed in
\* `required` is a key of `properties`.
C27_RequiredDeclared ==
    Converted =>
       /\ RequiredWithin(DimensionsSection)
       /\ RequiredWithin(VariablesSection)
       /\ \A i \in 1..Len(VariablesSection.properties) :
             RequiredWithin(VariablesSection.properties[i][2])

(***************************************************************************)
(* Properties of StandardAttrs                                             *)
(***************************************************************************)
\* a non-empty string, entirely lowercase, starting with a letter, with no
\* white space of any kind
WellFormedName(v) ==
    /\ v.kind = "str"
    /\ v.text # <<>>
    /\ \A i \in 1..Len(v.text) : v.text[i] \notin Upper \cup Space
    /\ v.text[1] \in Lower

\* C10: a standard_name that is not None is accepted only if it is a non-empty
\* string, entirely lowercase, starting with a letter and without white space
\* of any kind, and every other one raises NameError
C10_StandardName ==
    (attrs # Unbound /\ attrs.standard_name.kind # "None") =>
        /\ raised = "none" => WellFormedName(attrs.standard_name)
        /\ ~WellFormedName(attrs.standard_name) => raised = "NameError"

\* the standard_name is absent or passes the naming policy
NameAccepted(v) == v.kind = "None" \/ WellFormedName(v)

\* the set of the texts between the dots
Tokens(text) == Range(Split(text, "."))

\* C11: beside an accepted standard_name, a units string whose lower-case
\* form is "1", "none", "" or "undefined" is accepted; any other one that the
\* registry does not know raises UndefinedUnitError; one that resolves with
\* other tokens than its short form fails validation with the units message
\* instead, and one that resolves with the same tokens is accepted
C11_Units ==
    (call # Unbound /\ call.fn = "StandardAttrs" /\ attrs.units.kind = "str"
        /\ NameAccepted(attrs.standard_name)) =>
        IF ToLower(attrs.units.text) \in {<<"1">>, W_none, <<>>, W_undefined}
        THEN raised = "none"
        ELSE IF \A u \in UnitRegistry : u[1] # attrs.units.text
        THEN raised = "UndefinedUnitError"
        ELSE IF Tokens(attrs.units.text) # Tokens(PintUnit(attrs.units.text))
        THEN raised = "ValidationError" /\ errors = <<UnitsMessage(attrs.units)>>
        ELSE raised = "none"

\* a unit that resolves under another spelling has failed validation beside
\* a well-formed name
C11_Witness ==
    /\ call # Unbound /\ call.fn = "StandardAttrs"
    /\ WellFormedName(attrs.standard_name)
    /\ attrs.units = StrValue(W_meter)
    /\ raised = "ValidationError"

\* units that validate_units lets through: a special token, or a unit of the
\* registry written as its short form
UnitsAccepted(v) ==
    /\ v.kind = "str"
    /\ \/ ToLower(v.text) \in {<<"1">>, W_none, <<>>, W_undefined}
       \/ \E u \in UnitRegistry : u[1] = v.text /\ Tokens(u[1]) = Tokens(u[2])

\* C12: a well-formed standard_name without units fails validation with the
\* message that units are required; units without a standard_name, neither of
\* them, and a well-formed standard_name with accepted units all succeed, and
\* the instance holds the two values as they were given
C12_FusionConvention ==
    (call # Unbound /\ call.fn = "StandardAttrs") =>
        /\ (WellFormedName(attrs.standard_name) /\ attrs.units.kind = "None") =>
               /\ raised = "ValidationError"
               /\ errors = <<"units are required when standard_name is specified (Fusion convention)">>
        /\ (NameAccepted(attrs.standard_name)
               /\ (attrs.units.kind = "None" => attrs.standard_name.kind = "None")
               /\ (attrs.units.kind # "None" => UnitsAccepted(attrs.units))) =>
               /\ raised = "none"
               /\ returned = [standard_name |-> attrs.standard_name, units |-> attrs.units]

\* a well-formed standard_name without units has been refused
C12_Witness ==
    /\ call # Unbound /\ call.fn = "StandardAttrs"
    /\ WellFormedName(attrs.standard_name)
    /\ attrs.units.kind = "None"
    /\ raised = "ValidationError"
    /\ returned = Unbound

(***************************************************************************)
(* Properties of CoordinateModel                                           *)
(***************************************************************************)
\* the coordinate definitions a CoordinateModel(coords={...}) call was given
CoordsGiven ==
    IF call # Unbound /\ call.fn = "CoordinateModel" /\ DictHas(call.arg, W_coords)
          /\ DictGet(call.arg, W_coords).kind = "dict"
    THEN [i \in 1..Len(DictGet(call.arg, W_coords).items) |->
             DictGet(call.arg, W_coords).items[i][2]]
    ELSE <<>>

\* the two formats: a list, and a tuple of three elements whose third is a
\* mapping
SimpleFormat(coord_def) == coord_def.kind = "list"
FullFormatTuple(coord_def) ==
    /\ coord_def.kind = "tuple"
    /\ Len(coord_def.items) = 3
    /\ coord_def.items[3].kind = "dict"

\* C14: a CoordinateModel is constructed only if every coordinate is a list or
\* a tuple of three elements whose third is a mapping; a coordinate that is a
\* string or a tuple of another length ends the call in a ValidationError;
\* and without coordinates, or with an empty mapping, it is constructed
C14_CoordinateFormats ==
    (call # Unbound /\ call.fn = "CoordinateModel") =>
        /\ (CoordsGiven # <<>> /\ raised = "none") =>
               \A i \in 1..Len(CoordsGiven) :
                   SimpleFormat(CoordsGiven[i]) \/ FullFormatTuple(CoordsGiven[i])
        /\ (\E i \in 1..Len(CoordsGiven) :
                \/ CoordsGiven[i].kind = "str"
                \/ CoordsGiven[i].kind = "tuple" /\ Len(CoordsGiven[i].items) # 3) =>
               raised = "ValidationError"
        /\ (call.arg = <<>> \/ call.arg = <<<<W_coords, DictValue(<<>>)>>>>) => raised = "none"

\* the attrs a call hands to the shared check: those of DataArrayModel(...,
\* attrs=...) beside fields that pass, or of the one full-format coordinate
\* of CoordinateModel(coords={...})
AttrsChecked ==
    IF call = Unbound THEN Unbound
    ELSE IF call.fn = "DataArrayModel" /\ DictHas(call.arg, W_attrs)
            /\ DictGet(call.arg, W_dims) = TupleValue(<<StrValue(W_time)>>)
            /\ ~DictHas(call.arg, W_coords)
            /\ DictGet(call.arg, W_data).kind = "list"
    THEN DictGet(call.arg, W_attrs)
    ELSE IF call.fn = "CoordinateModel" /\ Len(CoordsGiven) = 1
            /\ FullFormatTuple(CoordsGiven[1])
    THEN CoordsGiven[1].items[3]
    ELSE Unbound

\* the value of a key of a mapping, None without the key
ValueOf(mapping, key) ==
    IF \E i \in 1..Len(mapping.items) : mapping.items[i][1] = key
    THEN mapping.items[CHOOSE i \in 1..Len(mapping.items) : mapping.items[i][1] = key][2]
    ELSE [kind |-> "None"]

\* C13: a DataArrayModel constructed with some attrs, and a CoordinateModel
\* with one full-format coordinate of those attrs, end as StandardAttrs ends
\* on attrs.get("standard_name") and attrs.get("units"): constructed when it
\* is, or else with its exception and, for a ValidationError, its messages
C13_SharedCheck ==
    AttrsChecked # Unbound =>
        /\ raised = Construct(ValueOf(AttrsChecked, W_standard_name),
                              ValueOf(AttrsChecked, W_units))
        /\ raised = "ValidationError" =>
               errors = LineErrors(ValueOf(AttrsChecked, W_standard_name),
                                   ValueOf(AttrsChecked, W_units))

\* a DataArrayModel has been refused for a standard_name without units
C13_Witness ==
    /\ AttrsChecked # Unbound
    /\ call.fn = "DataArrayModel"
    /\ WellFormedName(ValueOf(AttrsChecked, W_standard_name))
    /\ ValueOf(AttrsChecked, W_units).kind = "None"
    /\ raised = "ValidationError"

(***************************************************************************)
(* Properties of validate_xarray_object                                    *)
(***************************************************************************)
\* the object validate_xarray_object was called with, and the arrays whose
\* attrs and data its model looks at
ValidatedObject == call.arg
ArraysOf(obj) ==
    IF obj.type = "DataArray" THEN {[attrs |-> obj.attrs, data |-> obj.data]}
    ELSE IF obj.type = "Dataset"
    THEN {[attrs |-> obj.data_vars[i][2].attrs, data |-> obj.data_vars[i][2].data] :
             i \in 1..Len(obj.data_vars)}
    ELSE {}

\* how StandardAttrs ends on the standard_name and units of some attrs
AttrsEnd(attrs_items) ==
    Construct(ValueOf(DictValue(attrs_items), W_standard_name),
              ValueOf(DictValue(attrs_items), W_units))

\* C15: validate_xarray_object always returns, and never raises: True when
\* the model of the object is constructed, False when the object is neither
\* a DataArray nor a Dataset, when the attrs of one of its arrays break the
\* naming policy, name an undefined unit or lack the required units, and
\* when the data of one of them is no list
C15_ReturnsBool ==
    (call # Unbound /\ call.fn = "validate_xarray_object") =>
        /\ raised = "none"
        /\ returned \in BOOLEAN
        /\ returned = (XarrayModelOutcome(ValidatedObject).raised = "none")
        /\ ValidatedObject.type \notin {"DataArray", "Dataset"} => returned = FALSE
        /\ \A a \in ArraysOf(ValidatedObject) :
              (AttrsEnd(a.attrs) \in {"NameError", "UndefinedUnitError", "ValidationError"}
                  \/ a.data.kind # "list") => returned = FALSE
        /\ (\A a \in ArraysOf(ValidatedObject) :
                AttrsEnd(a.attrs) = "none" /\ a.data.kind = "list")
              /\ ValidatedObject.type \in {"DataArray", "Dataset"} => returned = TRUE

\* False has been returned for an object whose attrs name an undefined unit
C15_Witness ==
    /\ call # Unbound /\ call.fn = "validate_xarray_object"
    /\ \E a \in ArraysOf(ValidatedObject) : AttrsEnd(a.attrs) = "UndefinedUnitError"
    /\ returned = FALSE
    /\ raised = "none"

\* the attrs of a coordinate break the rule: a standard_name without units,
\* or a standard_name against the naming policy
BreaksRule(attrs_items) ==
    \/ /\ ValueOf(DictValue(attrs_items), W_standard_name).kind = "str"
       /\ ValueOf(DictValue(attrs_items), W_units).kind = "None"
    \/ ~NameAccepted(ValueOf(DictValue(attrs_items), W_standard_name))

\* C25: validate_xarray_object applies the standard_name/units rule to the
\* coordinates too: for a DataArray or Dataset one of whose coordinates has
\* a standard_name without units, or a standard_name against the naming
\* policy, it returns False.
C25_CoordinatesChecked ==
    (/\ call # Unbound /\ call.fn = "validate_xarray_object"
     /\ ValidatedObject.type \in {"DataArray", "Dataset"}) =>
        \A i \in 1..Len(ValidatedObject.coords) :
           BreaksRule(ValidatedObject.coords[i][2].attrs) => returned = FALSE

(***************************************************************************)
(* Properties of the batch run                                             *)
(***************************************************************************)
\* a step that is one iteration of the loop of main()
Iteration == pc = "loop" /\ cdl_files # <<>> /\ cdl_file' = Head(cdl_files)

\* C16: an iteration that converts a file whose output file exists skips it
\* and leaves every output file as it was when --force is not given, and
\* with --force makes the generated document the content of that file,
\* leaving the others
C16_SkipOrReplace ==
    [][(Iteration /\ status' \in {"generated", "skipped"}
            /\ output_file' \in DOMAIN schemas) =>
          IF args.force
          THEN /\ status' = "generated"
               /\ schemas' = [schemas EXCEPT ![output_file'] = schema']
          ELSE /\ status' = "skipped"
               /\ schemas' = schemas]_vars

\* without --force a file has been skipped whose output on disk is another
\* document than the one just generated
C16_Witness ==
    /\ status = "skipped"
    /\ ~args.force
    /\ output_file \in DOMAIN schemas
    /\ schemas[output_file] # schema

\* file f is still to be processed, after a file that cannot be read
BehindFailure(f) ==
    /\ pc = "loop"
    /\ \E i, j \in 1..Len(cdl_files) :
          /\ i < j
          /\ ~definitions[cdl_files[i]].readable
          /\ cdl_files[j] = f

C18_NoPartialOutput ==
    [][Iteration =>
          /\ status' = "error" => schemas' = schemas
          /\ schemas' # schemas =>
                /\ status' = "generated"
                /\ schema' = GenerateSchema(args.base_url, cdl_data', schema_id', clock)
                /\ DOMAIN schemas' = DOMAIN schemas \cup {output_file'}
                /\ schemas'[output_file'] = schema'
                /\ \A o \in DOMAIN schemas \ {output_file'} : schemas'[o] = schemas[o]]_vars

\* a file has failed while output files of earlier conversions are on disk
C18_Witness ==
    /\ status = "error"
    /\ ~definitions[cdl_file].readable
    /\ DOMAIN schemas # {}
    /\ \A o \in DOMAIN schemas : schemas[o].x_source.file # cdl_file

(***************************************************************************)
(* Properties of the Parsed Unit                                           *)
(***************************************************************************)
\* C19: in the Parsed Unit of every file that is converted, each name in the
\* dimensions of a variable is a key of the unit's dimensions; a file that
\* would break this is not converted
C19_NoDanglingDimension ==
    Converted =>
        \A i \in 1..Len(cdl_data.variables) :
            \A d \in Range(cdl_data.variables[i][2].dimensions) :
                DictHas(cdl_data.dimensions, d)

\* the entries `name = value` of the dimensions section of the file
DeclaredDims == definitions[cdl_file].cdl.dims

\* C20: the Parsed Unit holds a dimension for every entry `name = value` of
\* the dimensions section, with the integer as its size when value is an
\* integer literal and None when it is `_` or another token that is no number
C20_EveryDimension ==
    Converted =>
        \A i \in 1..Len(DeclaredDims) :
            /\ DictHas(cdl_data.dimensions, DeclaredDims[i].name)
            /\ DictGet(cdl_data.dimensions, DeclaredDims[i].name).size
                  = IF \A k \in 1..Len(DeclaredDims[i].value) :
                          DeclaredDims[i].value[k] \in Digit
                    THEN <<DigitsValue(DeclaredDims[i].value, 1, 0)>>
                    ELSE <<>>

\* the files of the run that were processed without an error, once the
\* loop has gone through them
Processed ==
    {f \in (IF IsFile(args.input_path) THEN {args.input_path} ELSE Rglob(args.input_path)) :
        definitions[f].readable}

\* C29: in one batch run two distinct input files that are processed without
\* an error never resolve to the same output file: a run with --force into
\* an empty output root ends with as many schema files as files processed.
C29_OneSchemaEach ==
    (/\ pc = "loop" /\ cdl_files = <<>>
     /\ budget = MaxRuns - 1
     /\ args.force) =>
        Cardinality(DOMAIN schemas) = Cardinality(Processed)

(***************************************************************************)
(* Properties of parse_cdl_file                                            *)
(***************************************************************************)
\* the lines of a file that stand before its line `<word>:`
LinesBefore(lines, word) ==
    With({i \in 1..Len(lines) : lines[i] = MarkerLine(word)}, LAMBDA M :
         IF M = {} THEN lines ELSE SubSeq(lines, 1, Min(M) - 1))

\* the mapping the global attribute lines among `lines` spell, a later line
\* of a key overwriting an earlier one
RECURSIVE LastWins(_, _)
LastWins(lines, written) ==
    IF lines = <<>> THEN written
    ELSE LastWins(Tail(lines),
                  IF Head(lines).kind = "global"
                  THEN DictSet(written, Head(lines).a.name, Head(lines).a.value)
                  ELSE written)

\* C21: the global attributes of a parsed file are exactly its
\* `:<name> = "<value>"` lines that stand before the `dimensions:` section,
\* the last occurrence of a key giving its value; a line of that form inside
\* or after the dimensions or variables section is not recorded.
C21_GlobalAttributes ==
    Len(parse_calls) = 1 =>
       cdl_data.global_attributes =
          LastWins(LinesBefore(parse_calls[1].lines, W_dimensions), <<>>)

\* the lines of the block of the declaration at place i of a file: those up
\* to the next declaration
BlockOf(lines, i) ==
    With({j \in (i + 1)..Len(lines) : lines[j].kind = "decl"}, LAMBDA D :
         SubSeq(lines, i + 1, IF D = {} THEN Len(lines) ELSE Min(D) - 1))

\* the attribute lines in the blocks of the variable v
BlockLines(lines, v) ==
    UNION {{l \in Range(BlockOf(lines, i)) : l.kind = "attr"} :
              i \in {j \in 1..Len(lines) : lines[j].kind = "decl" /\ lines[j].name = v}}
OwnLines(lines, v) == {l \in BlockLines(lines, v) : l.owner = v}
ForeignLines(lines, v) == {l \in BlockLines(lines, v) : l.owner # v}

\* the value an attribute line spells: the text between its quotes, or the
\* number its bare text stands for
Written(a) == IF a.quoted THEN StrValue(a.value) ELSE Coerce(a.value)

\* the attribute `entry` of the parsed variable v comes from a line of v's
\* block that v leads, and not from a line another identifier leads
FromOwnLine(lines, v, entry) ==
    /\ \E l \in OwnLines(lines, v) : l.a.name = entry[1]
    /\ \A o \in ForeignLines(lines, v) :
          (o.a.name = entry[1] /\ Written(o.a) = entry[2]) =>
             \E l \in OwnLines(lines, v) :
                l.a.name = entry[1] /\ Written(l.a) = entry[2]

\* C22: every attribute recorded for a parsed variable v comes from a line
\* of v's block whose leading identifier is exactly v; a line
\* `<other>:<attr> = ...`, its value quoted or not, inside v's block adds no
\* attribute to v or to any other variable.
C22_Ownership ==
    Len(parse_calls) = 1 =>
       \A k \in 1..Len(cdl_data.variables) :
          \A n \in 1..Len(cdl_data.variables[k][2].attributes) :
             FromOwnLine(parse_calls[1].lines, cdl_data.variables[k][1],
                         cdl_data.variables[k][2].attributes[n])

\* a block with a line of its variable and a line of the same attribute led
\* by another name has been parsed: the variable has its own value
C22_Witness ==
    /\ Len(parse_calls) = 1
    /\ DictHas(cdl_data.variables, W_coil_current)
    /\ DictGet(cdl_data.variables, W_coil_current).attributes = <<<<W_units, StrValue(W_A)>>>>
    /\ \E o \in ForeignLines(parse_calls[1].lines, W_coil_current) : o.a.name = W_units
    /\ DictGet(cdl_data.variables, W_time).attributes = <<<<W_units, StrValue(W_s)>>>>

\* the lines of a file that are not of a malformed block: a malformed
\* declaration and the attribute lines under it, up to the next declaration
InMalformedBlock(lines, i) ==
    \E j \in 1..i :
       /\ lines[j] \in MalformedDecls
       /\ \A k \in (j + 1)..i : lines[k].kind # "decl" /\ lines[k] \notin MalformedDecls
WellFormedLines(lines) ==
    With({i \in 1..Len(lines) : ~InMalformedBlock(lines, i)}, LAMBDA K :
         [n \in 1..Cardinality(K) |->
             lines[CHOOSE i \in K : Cardinality({j \in K : j <= i}) = n]])

\* C23: parsing is permissive: a file without a `dimensions:` line has no
\* dimensions, a file without a `variables:` line has no variables, and a
\* block whose declaration does not match `<type> <name>[(dims)] ;` is
\* skipped: no variable of its name is recorded and the variables are those
\* of the file without that block.
C23_Permissive ==
    Len(parse_calls) = 1 =>
       /\ DOMAIN cdl_data =
             {"global_attributes", "dimensions", "variables", "source_file"}
       /\ MarkerLine(W_dimensions) \notin Range(parse_calls[1].lines) =>
             cdl_data.dimensions = <<>>
       /\ MarkerLine(W_variables) \notin Range(parse_calls[1].lines) =>
             cdl_data.variables = <<>>
       /\ Range(parse_calls[1].lines) \cap MalformedDecls # {} =>
             /\ ~DictHas(cdl_data.variables, W_coil)
             /\ cdl_data.variables =
                   ParseCdlFile(NewParser, cdl_file,
                                SourceText(WellFormedLines(parse_calls[1].lines))).variables

\* a file with a malformed block between two well-formed ones has been
\* parsed: both are recorded
C23_Witness ==
    /\ Len(parse_calls) = 1
    /\ Range(parse_calls[1].lines) \cap MalformedDecls # {}
    /\ DictKeys(cdl_data.variables) = <<W_time, W_coil_current>>
    /\ DictGet(cdl_data.variables, W_coil_current).attributes = <<<<W_units, StrValue(W_A)>>>>

\* the lines between the `variables:` line of a file and its `data:` line,
\* or its end
VariablesSpan(lines) ==
    With({i \in 1..Len(lines) : lines[i] = MarkerLine(W_variables)}, LAMBDA V :
    With({i \in 1..Len(lines) : lines[i] = MarkerLine(W_data)}, LAMBDA D :
         SubSeq(lines, Min(V) + 1, IF D = {} THEN Len(lines) ELSE Min(D) - 1)))

\* the attributes the lines of a block spell for its variable v
RECURSIVE AttributesWritten(_, _, _)
AttributesWritten(block, v, written) ==
    IF block = <<>> THEN written
    ELSE AttributesWritten(Tail(block), v,
                           IF Head(block).kind = "attr" /\ Head(block).owner = v
                           THEN DictSet(written, Head(block).a.name, Written(Head(block).a))
                           ELSE written)

\* the variables the declarations among `lines` spell, each with all the
\* attribute lines of its block
RECURSIVE VariablesDeclared(_, _, _)
VariablesDeclared(lines, i, declared) ==
    IF i > Len(lines) THEN declared
    ELSE VariablesDeclared(lines, i + 1,
            IF lines[i].kind = "decl"
            THEN DictSet(declared, lines[i].name,
                         CDLVariable(lines[i].name, lines[i].data_type, lines[i].dims,
                                     AttributesWritten(BlockOf(lines, i), lines[i].name, <<>>)))
            ELSE declared)

\* C24: the variables parsed are those declared between the `variables:`
\* line and the `data:` line, or the end of the file when it has no data
\* section, each with all of its attribute lines, whatever the names of the
\* variables and the values of the attributes; nothing behind the `data:`
\* line is parsed as a variable.
C24_VariablesSection ==
    (Len(parse_calls) = 1 /\ MarkerLine(W_variables) \in Range(parse_calls[1].lines)) =>
       cdl_data.variables = VariablesDeclared(VariablesSpan(parse_calls[1].lines), 1, <<>>)

(***************************************************************************)
(* Properties of the build                                                 *)
(***************************************************************************)
\* C26: after the converter has gone, with --force and without an error,
\* through every CDL file below the definitions root, the build finds, for
\* every definitions/<rel-dir>/<stem>.cdl, the schema
\* schemas/<rel-dir>/<stem with "_" replaced by "-">.schema.json: no schema
\* is reported missing.
C26_BuildAgrees ==
    (/\ build # Unbound
     /\ \A f \in DOMAIN definitions : definitions[f].readable) =>
        build.missing_schemas = {}

(***************************************************************************)
(* Properties of a parser used for several files                           *)
(***************************************************************************)
\* the three mappings of a Parsed Unit
Mappings(unit) == <<unit.global_attributes, unit.dimensions, unit.variables>>

\* C28: parse calls are isolated: the Parsed Unit a call returns holds only
\* what the file of that call declares, whatever the parser has parsed
\* before, and a Parsed Unit that has been returned is not changed by a
\* later call.
C28_Isolated ==
    \A i \in 1..Len(parse_calls) :
       /\ Mappings(parse_calls[i].returned)
             = Mappings(ParseCdlFile(NewParser, cdl_file, SourceText(parse_calls[i].lines)))
       /\ Mappings(parse_calls[i].now) = Mappings(parse_calls[i].returned)

\* a quoted value with "//" in it stands in the file
QuotedSlashes(lines) ==
    \E i \in 1..Len(lines) :
       /\ lines[i].kind \in {"global", "attr"}
       /\ lines[i].a.quoted
       /\ Contains(lines[i].a.value, <<"/", "/">>)

\* C30: only comments are stripped: a "//" inside a quoted value is no
\* comment, so in a file with such a value every global attribute and every
\* attribute of a variable is recorded as written between its quotes, the
\* lines behind that value included.
C30_QuotedValuesKept ==
    (Len(parse_calls) = 1 /\ QuotedSlashes(parse_calls[1].lines)) =>
       /\ cdl_data.global_attributes = LastWins(parse_calls[1].lines, <<>>)
       /\ cdl_data.variables
             = VariablesDeclared(VariablesSpan(parse_calls[1].lines), 1, <<>>)

====
